---- MODULE Spec2Model ----
(***************************************************************************)
(* Model of the AI Help Doc Scoring Tool: the Scorer pipeline              *)
(* (js/scorer.js), the rule evaluators (js/rules/content-structure.js,     *)
(* terminology, text-over-visuals), the Claude adapter                     *)
(* (js/claude-client.js), the metrics calculator (js/parser.js) and the    *)
(* Claude cache (js/storage.js).                                           *)
(*                                                                         *)
(* Numbers.  Every score is kept in TENTHS (7.0 is 70), every ratio and    *)
(* every weight in HUNDREDTHS (0.30 is 30), so that JavaScript's           *)
(* Math.round(x * 10) / 10 is exact integer arithmetic here.  JavaScript   *)
(* doubles are modelled by exact rationals; NaN and null are the two       *)
(* sentinels NaN and Null below, and every arithmetic operator on scores   *)
(* propagates NaN the way IEEE arithmetic does.                            *)
(***************************************************************************)
EXTENDS Integers, Sequences, FiniteSets, TLC

\* ------------------------------------------------------------------ bounds
MaxParagraphs == 2
MaxHeadings == 2
MaxLists == 2
MaxImages == 6
MaxLinks == 2
MaxTermCount == 2
MaxSections == 1
MaxClaudeIssues == 1
MaxWait == 1

\* --------------------------------------------------------- JS number model
\* NaN (a number that is no number) and null, as values outside every range
\* a score can take.
NaN == 99999
Null == 88888
Undefined == 77777

IsNum(x) == x # NaN /\ x # Null /\ x # Undefined

\* typeof x === 'number' (true of NaN as well)
TypeofNumber(x) == x # Null /\ x # Undefined

\* JavaScript ToNumber on the values a score can hold: null -> 0,
\* undefined -> NaN
ToNumber(x) == IF x = Null THEN 0 ELSE IF x = Undefined THEN NaN ELSE x

Plus(a, b) == IF ToNumber(a) = NaN \/ ToNumber(b) = NaN THEN NaN ELSE ToNumber(a) + ToNumber(b)

\* every comparison with NaN is false
Lt(a, b) == ToNumber(a) # NaN /\ ToNumber(b) # NaN /\ ToNumber(a) < ToNumber(b)
Ge(a, b) == ToNumber(a) # NaN /\ ToNumber(b) # NaN /\ ToNumber(a) >= ToNumber(b)
Gt(a, b) == ToNumber(a) # NaN /\ ToNumber(b) # NaN /\ ToNumber(a) > ToNumber(b)

\* Math.round(num / den) for den > 0: round half up (floor(x + 0.5))
RoundDiv(num, den) == (2 * num + den) \div (2 * den)

\* Math.max(0, Math.min(10, x)) on tenths; NaN stays NaN
Clamp(x) == IF x = NaN THEN NaN ELSE IF x < 0 THEN 0 ELSE IF x > 100 THEN 100 ELSE x

\* Math.max(0, x) on tenths
AtLeastZero(x) == IF x = NaN THEN NaN ELSE IF x < 0 THEN 0 ELSE x

Min(a, b) == IF a < b THEN a ELSE b

\* ------------------------------------------------------- sequence helpers
RECURSIVE SumSeq(_)
SumSeq(s) == IF s = <<>> THEN 0 ELSE Head(s) + SumSeq(Tail(s))

\* sum of JS numbers: NaN absorbs
RECURSIVE SumNum(_)
SumNum(s) == IF s = <<>> THEN 0 ELSE Plus(Head(s), SumNum(Tail(s)))

RECURSIVE Flatten(_)
Flatten(ss) == IF ss = <<>> THEN <<>> ELSE Head(ss) \o Flatten(Tail(ss))

RECURSIVE MaxSeq(_)
MaxSeq(s) == IF s = <<>> THEN 0 ELSE LET m == MaxSeq(Tail(s)) IN IF Head(s) > m THEN Head(s) ELSE m

SeqsUpTo(S, n) == UNION { [1..k -> S] : k \in 0..n }

Range(s) == { s[i] : i \in DOMAIN s }

\* Array.prototype.slice(0, n)
Slice(s, n) == SubSeq(s, 1, Min(n, Len(s)))

\* severityOrder = { critical: 0, warning: 1, info: 2 }, anything else 3
\* (severityOrder[s] ?? 3)
SeverityRank(sev) ==
    IF sev = "critical" THEN 0
    ELSE IF sev = "warning" THEN 1
    ELSE IF sev = "info" THEN 2
    ELSE 3

\* a faulty variant of the sort step: x goes before the elements of its own
\* rank, which reverses the order of equal elements
RECURSIVE InsertBySeverityUnstable(_, _)
InsertBySeverityUnstable(x, s) ==
    IF s = <<>> THEN <<x>>
    ELSE IF SeverityRank(Head(s).severity) < SeverityRank(x.severity)
         THEN <<Head(s)>> \o InsertBySeverityUnstable(x, Tail(s))
         ELSE <<x>> \o s

\* one step of the sort: x goes after every element that does not rank
\* after it, so equal elements keep their order
RECURSIVE InsertBySeverity(_, _)
InsertBySeverity(x, s) ==
    IF s = <<>> THEN <<x>>
    ELSE IF SeverityRank(Head(s).severity) <= SeverityRank(x.severity)
         THEN <<Head(s)>> \o InsertBySeverity(x, Tail(s))
         ELSE <<x>> \o s

\* Array.prototype.sort with the comparator
\* severityOrder[a.severity] - severityOrder[b.severity]: a stable sort
\* (ECMAScript 2019), computed by inserting the elements in their order
RECURSIVE SortBySeverity(_)
SortBySeverity(s) ==
    IF s = <<>> THEN <<>>
    ELSE InsertBySeverity(s[Len(s)], SortBySeverity(SubSeq(s, 1, Len(s) - 1)))

\* ------------------------------------------------------------ page content
\* The bookmarklet payload (NormalizedContent).  A paragraph is its
\* wordCount, a heading its level, an image its hasAlt flag; a list is
\* [type, items] where an item is the kind of its first words; a link is
\* [type, isBroken]; fullText is the sequence of its word tokens.
ParagraphWords == {20, 160, 210}
HeadingLevels == {1, 2, 4}
ItemKinds == {"click", "add", "steps", "plain"}
ListKinds == { [type |-> "ol", items |-> <<"plain", "plain">>],
               [type |-> "ul", items |-> <<"plain", "plain">>],
               [type |-> "ul", items |-> <<"click", "plain">>],
               [type |-> "ul", items |-> <<"add", "plain", "plain", "plain">>],
               [type |-> "ul", items |-> <<"steps", "plain">>] }
LinkKinds == { [type |-> "internal", isBroken |-> FALSE], [type |-> "external", isBroken |-> TRUE] }
Vocab == {"delete", "remove", "deactivate", "disable", "uninstall",
          "warning", "will", "admin", "plan", "explanation", "editing", "edits"}
WordCounts == {0, 150, 400}

\* images.length = n of which the first k lack alt text
ImageSeq(n, k) == [i \in 1..n |-> i > k]

\* a section of content.sections: its paragraphs, lists and images
SectionKinds == { [title |-> "s", level |-> 2, paragraphs |-> ps, lists |-> ls,
                   images |-> <<>>, tables |-> 0, codeBlocks |-> 0, wordCount |-> 40]
                  : ps \in {<<>>, <<210, 20>>}, ls \in {<<>>, <<[type |-> "ol", items |-> <<"plain">>]>>} }

\* ---------------------------------------------------------------- Parser
\* /^(click|select|...|add|...)\b/i or /^step\s+\d+/i on a list item
isProceduralItem(item) == item \in {"click", "add"}

CountIf(s, Test(_)) == Cardinality({ i \in DOMAIN s : Test(s[i]) })

\* Math.ceil(n * 0.3)
Ceil30(n) == (3 * n + 9) \div 10

\* a faulty variant of ScanHeadings: the first heading is compared with
\* level 0 like any other
RECURSIVE ScanHeadingsFromZero(_, _, _)
ScanHeadingsFromZero(levels, i, previousLevel) ==
    IF i > Len(levels) THEN <<>>
    ELSE (IF levels[i] > previousLevel + 1
          THEN <<[type |-> "skipped", from |-> previousLevel, to |-> levels[i], index |-> i - 1]>>
          ELSE <<>>) \o ScanHeadingsFromZero(levels, i + 1, levels[i])

\* the loop of Parser.validateHeadingHierarchy from position i on
RECURSIVE ScanHeadings(_, _, _)
ScanHeadings(levels, i, previousLevel) ==
    IF i > Len(levels) THEN <<>>
    ELSE (IF levels[i] > previousLevel + 1 /\ previousLevel # 0
          THEN <<[type |-> "skipped", from |-> previousLevel, to |-> levels[i], index |-> i - 1]>>
          ELSE <<>>) \o ScanHeadings(levels, i + 1, levels[i])

\* Parser.validateHeadingHierarchy
validateHeadingHierarchy(levels) ==
    LET issues == ScanHeadings(levels, 1, 0)
    IN [valid |-> Len(issues) = 0, issues |-> issues]

NoSentences == [present |-> FALSE, total |-> 0, longCount |-> 0, complexCount |-> 0, longSamples |-> <<>>]

\* Parser.computeMetrics (js/parser.js).  Ratios in hundredths
\* (Math.round(x * 100) / 100).  This version sets no links.brokenCount.
computeMetrics(content) ==
    LET ps == content.paragraphs
        hs == content.headings
        ls == content.lists
        ims == content.images
        procedural(l) == l.type = "ol"
                         \/ CountIf(l.items, isProceduralItem) >= (IF Ceil30(Len(l.items)) > 1 THEN Ceil30(Len(l.items)) ELSE 1)
        proceduralCount == CountIf(ls, procedural)
        withAlt == Cardinality({ i \in DOMAIN ims : ims[i] })
        totalBlocks == Len(ps) + Len(ls) + content.tables + content.codeBlocks + content.callouts
        visualBlocks == Len(ims) + content.tables
        RECURSIVE Long(_)
        Long(i) == IF i > Len(ps) THEN <<>>
                   ELSE (IF ps[i] > 150 THEN <<[wordCount |-> ps[i], index |-> i - 1]>> ELSE <<>>) \o Long(i + 1)
        RECURSIVE Missing(_)
        Missing(i) == IF i > Len(ims) THEN <<>>
                      ELSE (IF ~ims[i] THEN <<[index |-> i - 1]>> ELSE <<>>) \o Missing(i + 1)
    IN [paragraphs |-> [count |-> Len(ps),
                        avgLength |-> IF Len(ps) > 0 THEN RoundDiv(SumSeq(ps), Len(ps)) ELSE 0,
                        maxLength |-> MaxSeq(ps),
                        longCount |-> Len(Long(1)),
                        longParagraphs |-> Long(1),
                        sentences |-> NoSentences],
        headings |-> [count |-> Len(hs),
                      hasH1 |-> \E i \in DOMAIN hs : hs[i] = 1,
                      hasH2 |-> \E i \in DOMAIN hs : hs[i] = 2,
                      h1Count |-> Cardinality({ i \in DOMAIN hs : hs[i] = 1 }),
                      firstLevel |-> IF Len(hs) > 0 THEN hs[1] ELSE Null,
                      hierarchyValid |-> validateHeadingHierarchy(hs),
                      levels |-> hs],
        lists |-> [count |-> Len(ls),
                   listToParagraphRatio |-> IF Len(ps) > 0 THEN RoundDiv(100 * Len(ls), Len(ps)) ELSE 0,
                   orderedCount |-> Cardinality({ i \in DOMAIN ls : ls[i].type = "ol" }),
                   proceduralCount |-> proceduralCount,
                   descriptiveCount |-> Len(ls) - proceduralCount],
        images |-> [count |-> Len(ims),
                    withAlt |-> withAlt,
                    withoutAlt |-> Len(ims) - withAlt,
                    altTextCoverage |-> IF Len(ims) > 0 THEN RoundDiv(100 * withAlt, Len(ims)) ELSE 100,
                    imageToTextRatio |-> IF content.wordCount > 0
                                         THEN RoundDiv(10000 * Len(ims), content.wordCount) ELSE 0,
                    missingAlt |-> Missing(1)],
        content |-> [totalBlocks |-> totalBlocks,
                     visualBlocks |-> visualBlocks,
                     visualToContentRatio |-> IF totalBlocks > 0 THEN RoundDiv(100 * visualBlocks, totalBlocks) ELSE 0,
                     wordCount |-> content.wordCount],
        links |-> [total |-> Len(content.links),
                   internal |-> Cardinality({ i \in DOMAIN content.links : content.links[i].type = "internal" }),
                   external |-> Cardinality({ i \in DOMAIN content.links : content.links[i].type = "external" }),
                   brokenCount |-> Undefined,
                   brokenLinks |-> <<>>]]

\* ------------------------------------------------------- issues, criteria
Issue(sev, msg, at) == [severity |-> sev, message |-> msg, at |-> at]

Criterion(score, issues) == [score |-> score, issues |-> issues]

\* Object.values(criteria).flatMap(c => c.issues) over the criteria in
\* insertion order
CriteriaIssues(order, criteria) == Flatten([i \in DOMAIN order |-> criteria[order[i]].issues])

\* Math.round((weightedSum / totalWeight) * 10) / 10 of a rule evaluator's
\* scoreAll: weights in hundredths, result in tenths
WeightedCategoryScore(order, criteria, weights) ==
    IF \E i \in DOMAIN order : criteria[order[i]].score = NaN THEN NaN
    ELSE RoundDiv(SumSeq([i \in DOMAIN order |-> criteria[order[i]].score * weights[order[i]]]),
                  SumSeq([i \in DOMAIN order |-> weights[order[i]]]))

\* what a rule evaluator's scoreAll returns for its criteria: the criteria,
\* the weighted category score and the issues sorted by severity
RuleResult(order, criteria, weights) ==
    [criteria |-> criteria,
     order |-> order,
     categoryScore |-> WeightedCategoryScore(order, criteria, weights),
     allIssues |-> SortBySeverity(CriteriaIssues(order, criteria))]

\* ------------------------------------------------ ContentStructureRules
\* a faulty variant of LongParagraphIssues: critical from 200 words on
LongParagraphIssuesFrom200(longParagraphs) ==
    [i \in DOMAIN longParagraphs |->
        Issue(IF longParagraphs[i].wordCount >= 200 THEN "critical" ELSE "warning",
              "Paragraph has too many words", longParagraphs[i].index + 1)]

\* the per-paragraph issues of scoreParagraphBrevity
LongParagraphIssues(longParagraphs) ==
    [i \in DOMAIN longParagraphs |->
        Issue(IF longParagraphs[i].wordCount > 200 THEN "critical" ELSE "warning",
              "Paragraph has too many words", longParagraphs[i].index + 1)]

\* ContentStructureRules.scoreParagraphBrevity (CS-01), default threshold
scoreParagraphBrevity(metrics) ==
    LET paragraphs == metrics.paragraphs
        sentences == paragraphs.sentences
        checked == sentences.present /\ sentences.total > 0
        longRatioHigh == checked /\ 5 * sentences.longCount > sentences.total
        score0 == RoundDiv(10 * (paragraphs.count - paragraphs.longCount), paragraphs.count)
        score1 == IF longRatioHigh THEN score0 - 1 ELSE score0
        issues == LongParagraphIssues(paragraphs.longParagraphs)
                  \o (IF longRatioHigh THEN <<Issue("warning", "long sentences detected", 0)>> ELSE <<>>)
                  \o (IF checked /\ sentences.complexCount > 0
                      THEN <<Issue("info", "sentences have multiple clauses", 0)>> ELSE <<>>)
                  \o (IF checked
                      THEN [i \in DOMAIN sentences.longSamples |->
                              Issue("info", "Long sentence in paragraph", sentences.longSamples[i] + 1)]
                      ELSE <<>>)
    IN IF paragraphs.count = 0 THEN Criterion(100, <<>>)
       ELSE Criterion(Clamp(10 * score1), issues)

\* ContentStructureRules.scoreListUsage (CS-02), default idealRatio 0.3
scoreListUsage(metrics) ==
    LET lists == metrics.lists
        paragraphs == metrics.paragraphs
        actualRatio == lists.listToParagraphRatio
        \* in tenths before the rounding to an integer score
        raw == IF actualRatio >= 30 THEN Min(100, 70 + (actualRatio - 30))
               ELSE 10 * RoundDiv(7 * actualRatio, 30)
        score0 == Clamp(10 * RoundDiv(raw, 10))
        unordered == Gt(lists.proceduralCount, 0) /\ lists.orderedCount = 0
        score1 == IF unordered THEN score0 - 10 ELSE score0
        issues == (IF actualRatio < 10 /\ paragraphs.count > 3
                   THEN <<Issue("warning", "Low list usage in procedural content", 0)>> ELSE <<>>)
                  \o (IF unordered THEN <<Issue("warning", "Procedural lists are not ordered", 0)>> ELSE <<>>)
                  \o (IF Gt(lists.descriptiveCount, 0) /\ lists.proceduralCount = 0 /\ lists.count > 0
                      THEN <<Issue("info", "Lists appear descriptive rather than procedural", 0)>> ELSE <<>>)
    IN IF paragraphs.count = 0 /\ lists.count = 0
       THEN Criterion(50, <<Issue("info", "No paragraphs or lists found", 0)>>)
       ELSE Criterion(AtLeastZero(score1), issues)

\* ContentStructureRules.scoreHeadingHierarchy (CS-04)
scoreHeadingHierarchy(metrics) ==
    LET headings == metrics.headings
        noH1 == ~headings.hasH1
        manyH1 == headings.h1Count > 1
        deepStart == headings.firstLevel # Null /\ headings.firstLevel > 1
        noH2 == ~headings.hasH2 /\ \E i \in DOMAIN headings.levels : headings.levels[i] >= 3
        invalid == ~headings.hierarchyValid.valid
        skips == headings.hierarchyValid.issues
        totalBlocks == metrics.content.totalBlocks
        sparse == 20 * headings.count < (IF totalBlocks > 1 THEN totalBlocks ELSE 1) /\ totalBlocks > 10
        score == 10 - (IF noH1 THEN 2 ELSE 0) - (IF manyH1 THEN 1 ELSE 0)
                    - (IF deepStart THEN 1 ELSE 0) - (IF noH2 THEN 1 ELSE 0)
                    - (IF invalid THEN Min(5, 2 * Len(skips)) ELSE 0)
                    - (IF sparse THEN 1 ELSE 0)
        issues == (IF noH1 THEN <<Issue("warning", "Page lacks an H1 heading", 0)>> ELSE <<>>)
                  \o (IF manyH1 THEN <<Issue("warning", "Multiple H1 headings found", 0)>> ELSE <<>>)
                  \o (IF deepStart THEN <<Issue("warning", "First heading starts too deep", 0)>> ELSE <<>>)
                  \o (IF noH2 THEN <<Issue("warning", "Missing H2 headings before deeper sections", 0)>> ELSE <<>>)
                  \o (IF invalid
                      THEN [i \in DOMAIN skips |-> Issue("warning", "Heading level skipped", skips[i].index + 1)]
                      ELSE <<>>)
                  \o (IF sparse THEN <<Issue("info", "Content could benefit from more section headings", 0)>> ELSE <<>>)
    IN IF headings.count = 0
       THEN Criterion(30, <<Issue("critical", "No headings found", 0)>>)
       ELSE Criterion(AtLeastZero(10 * score), issues)

\* ContentStructureRules.scoreLinkIntegrity (CS-07); links.brokenCount may
\* be undefined, and undefined / total is NaN
scoreLinkIntegrity(metrics) ==
    LET links == metrics.links
        broken == links.brokenCount
        score == IF broken = Undefined THEN NaN
                 ELSE 10 * RoundDiv(10 * (links.total - broken), links.total)
        issues == IF Gt(broken, 0)
                  THEN <<Issue(IF 5 * broken > links.total THEN "warning" ELSE "info",
                               "broken internal anchors detected", 0)>>
                       \o [i \in DOMAIN Slice(links.brokenLinks, 5) |-> Issue("info", "Broken anchor link", i)]
                  ELSE <<>>
    IN IF links.total = 0 THEN Criterion(100, <<>>)
       ELSE Criterion(Clamp(score), issues)

ContentStructureOrder == <<"CS-01", "CS-02", "CS-04", "CS-07">>

\* the fallback weights of ContentStructureRules.scoreAll, in hundredths
ContentStructureWeights == [c \in {"CS-01", "CS-02", "CS-04", "CS-07"} |->
    IF c = "CS-01" THEN 35 ELSE IF c = "CS-02" THEN 30 ELSE IF c = "CS-04" THEN 35 ELSE 10]

\* ContentStructureRules.scoreAll
ContentStructureScoreAll(metrics) ==
    RuleResult(ContentStructureOrder,
               [c \in {"CS-01", "CS-02", "CS-04", "CS-07"} |->
                   IF c = "CS-01" THEN scoreParagraphBrevity(metrics)
                   ELSE IF c = "CS-02" THEN scoreListUsage(metrics)
                   ELSE IF c = "CS-04" THEN scoreHeadingHierarchy(metrics)
                   ELSE scoreLinkIntegrity(metrics)],
               ContentStructureWeights)

\* ------------------------------------------------------ TerminologyRules
\* fullText is a bag of word tokens: text[w] is the number of times the
\* word w occurs.  A term of several words matches no single token.
CountTerm(text, term) == IF term \in DOMAIN text THEN text[term] ELSE 0

\* TerminologyRules.CONFUSABLE_TERMS, each group as [primary, ...variants]
ConfusableOrder == <<"deactivate", "delete", "enable", "create", "edit", "save", "cancel",
                     "connect", "disconnect", "configure", "install", "uninstall">>

CONFUSABLE_TERMS == [g \in Range(ConfusableOrder) |->
    IF g = "deactivate" THEN <<"deactivate", "disable", "turn off", "switch off", "inactivate">>
    ELSE IF g = "delete" THEN <<"delete", "remove", "erase", "clear", "discard", "trash">>
    ELSE IF g = "enable" THEN <<"enable", "activate", "turn on", "switch on">>
    ELSE IF g = "create" THEN <<"create", "add", "make", "new", "generate">>
    ELSE IF g = "edit" THEN <<"edit", "modify", "change", "update", "alter">>
    ELSE IF g = "save" THEN <<"save", "store", "keep", "preserve">>
    ELSE IF g = "cancel" THEN <<"cancel", "abort", "stop", "terminate", "end">>
    ELSE IF g = "connect" THEN <<"connect", "link", "attach", "join", "integrate">>
    ELSE IF g = "disconnect" THEN <<"disconnect", "unlink", "detach", "separate", "remove connection">>
    ELSE IF g = "configure" THEN <<"configure", "set up", "setup", "customize", "adjust">>
    ELSE IF g = "install" THEN <<"install", "set up", "add", "deploy">>
    ELSE <<"uninstall", "remove", "delete", "uninstall">>]

\* TerminologyRules.extractActionTerms for one group: the variants that
\* occur, in the order of the group, with their counts
RECURSIVE VariantsUsed(_, _, _)
VariantsUsed(text, allTerms, i) ==
    IF i > Len(allTerms) THEN <<>>
    ELSE LET rest == VariantsUsed(text, allTerms, i + 1)
             term == allTerms[i]
         IN IF CountTerm(text, term) > 0 /\ ~\E j \in 1..(i - 1) : allTerms[j] = term
            THEN <<[term |-> term, count |-> CountTerm(text, term)]>> \o rest
            ELSE rest

\* one group of scoreTermConsistency, given the variants used: whether it
\* counts as a group (more than one variant used) and whether it raises an
\* issue
GroupOf(used) ==
    LET top == CHOOSE i \in DOMAIN used :
                  \A j \in DOMAIN used : used[j].count < used[i].count \/ (used[j].count = used[i].count /\ j >= i)
        others == { j \in DOMAIN used : used[j].term # used[top].term }
        RECURSIVE SumOthers(_)
        SumOthers(S) == IF S = {} THEN 0
                        ELSE LET j == CHOOSE k \in S : TRUE IN used[j].count + SumOthers(S \ {j})
    IN [counted |-> Len(used) > 1,
        flagged |-> Len(used) > 1 /\ ((\E j \in others : used[j].count > 1) \/ SumOthers(others) > 2)]

GroupAnalysis(text, primary) == GroupOf(VariantsUsed(text, CONFUSABLE_TERMS[primary], 1))

\* TerminologyRules.STOP_WORDS restricted to the vocabulary
STOP_WORDS == {"will"}

\* the length of a vocabulary word
WordLength(w) ==
    IF w \in {"will", "plan"} THEN 4
    ELSE IF w \in {"admin", "edits"} THEN 5
    ELSE IF w \in {"delete", "remove"} THEN 6
    ELSE IF w \in {"disable", "warning", "editing"} THEN 7
    ELSE IF w = "uninstall" THEN 9
    ELSE IF w = "deactivate" THEN 10
    ELSE 11

\* TerminologyRules.normalizeTerm: strip one trailing ing|ed|es|s
normalizeTerm(w) ==
    IF w = "warning" THEN "warn"
    ELSE IF w \in {"editing", "edits"} THEN "edit"
    ELSE w

\* TerminologyRules.extractTerminologyClusters and the cluster pass of
\* scoreTermConsistency: the roots that count as an inconsistency
InconsistentClusters(text) ==
    LET tokens == { w \in DOMAIN text : text[w] > 0 /\ WordLength(w) >= 4 /\ w \notin STOP_WORDS }
        roots == { normalizeTerm(w) : w \in tokens }
        variants(root) == { w \in tokens : normalizeTerm(w) = root }
        RECURSIVE Total(_)
        Total(S) == IF S = {} THEN 0 ELSE LET w == CHOOSE x \in S : TRUE IN text[w] + Total(S \ {w})
        significant(root) == { w \in variants(root) : text[w] >= 2 }
    IN { root \in roots :
            /\ Cardinality(significant(root)) >= 2
            /\ Total(variants(root)) >= 4
            /\ ~\A w \in significant(root) : (w = root \/ (root = "edit" /\ w = "edits")) }

\* the groups of CONFUSABLE_TERMS with more than one variant in the text
CountedGroups(text) == SelectSeq(ConfusableOrder, LAMBDA g : GroupAnalysis(text, g).counted)

\* those of them that raise an issue
FlaggedGroups(text) == SelectSeq(CountedGroups(text), LAMBDA g : GroupAnalysis(text, g).flagged)

\* the score and issues of scoreTermConsistency from its counts; every
\* group with more than one variant has other variants, so
\* inconsistentGroups is totalGroups
TermConsistencyOf(totalGroups, flagged, clusterInconsistencies) ==
    LET inconsistentGroups == totalGroups
        base == IF totalGroups > 0 THEN RoundDiv(10 * (totalGroups - inconsistentGroups), totalGroups) ELSE 10
    IN Criterion(AtLeastZero(10 * (base - Min(3, clusterInconsistencies))),
                 [i \in DOMAIN flagged |-> Issue("warning", "Inconsistent terminology", i)]
                 \o [i \in 1..clusterInconsistencies |-> Issue("info", "Potential terminology variants", i)])

\* TerminologyRules.scoreTermConsistency (AV-01)
scoreTermConsistency(content) ==
    TermConsistencyOf(Len(CountedGroups(content.text)), FlaggedGroups(content.text),
                      Cardinality(InconsistentClusters(content.text)))

\* the highRiskPairs of detectConfusableTerms
HighRiskPairs == << <<"delete", "remove">>, <<"deactivate", "disable">>, <<"uninstall", "remove">> >>

\* TerminologyRules.detectConfusableTerms (AV-02)
detectConfusableTerms(content) ==
    LET hit == SelectSeq(HighRiskPairs, LAMBDA pr : CountTerm(content.text, pr[1]) > 0
                                                    /\ CountTerm(content.text, pr[2]) > 0)
    IN Criterion(AtLeastZero(10 * (10 - 2 * Len(hit))),
                 [i \in DOMAIN hit |-> Issue("warning", "Potentially confusable terms", i)])

TerminologyOrder == <<"AV-01", "AV-02">>

TerminologyWeights == [c \in {"AV-01", "AV-02"} |-> IF c = "AV-01" THEN 60 ELSE 40]

\* TerminologyRules.scoreAll
TerminologyScoreAll(content) ==
    RuleResult(TerminologyOrder,
               [c \in {"AV-01", "AV-02"} |->
                   IF c = "AV-01" THEN scoreTermConsistency(content) ELSE detectConfusableTerms(content)],
               TerminologyWeights)

\* -------------------------------------------------- TextOverVisualsRules
\* /^(step|click|select|go to|navigate|open)/i on a list item
LooksProcedural(item) == item \in {"click", "steps"}

\* TextOverVisualsRules.scoreTextFirst (TB-01)
scoreTextFirst(metrics, content) ==
    LET images == metrics.images
        imageDensity == images.imageToTextRatio
        tier == IF imageDensity > 200 THEN Criterion(40, <<Issue("critical", "Content is heavily image-dependent", 0)>>)
                ELSE IF imageDensity > 100 THEN Criterion(60, <<Issue("warning", "Content relies significantly on images", 0)>>)
                ELSE IF imageDensity > 50 THEN Criterion(80, <<Issue("info", "Good text-to-image balance", 0)>>)
                ELSE Criterion(100, <<>>)
        hasProceduralContent == \E i \in DOMAIN content.lists :
            \/ content.lists[i].type = "ol"
            \/ \E j \in DOMAIN content.lists[i].items : LooksProcedural(content.lists[i].items[j])
    IN IF images.count = 0 THEN Criterion(100, <<>>)
       ELSE IF hasProceduralContent /\ images.count > 5
            THEN Criterion(Min(tier.score, 70),
                           tier.issues \o <<Issue("warning", "Procedural content with many screenshots", 0)>>)
            ELSE tier

\* TextOverVisualsRules.scoreImageRatio (TB-02), idealMax 0.33
scoreImageRatio(metrics) ==
    LET ratio == metrics.content.visualToContentRatio
        score == IF ratio <= 33 THEN 8 + RoundDiv(2 * (33 - ratio), 33)
                 ELSE IF ratio <= 50 THEN 5 + RoundDiv(2 * (50 - ratio), 17)
                 ELSE LET r == RoundDiv(8 * (100 - ratio), 100) IN IF r < 0 THEN 0 ELSE r
        issues == IF ratio > 33
                  THEN <<Issue(IF ratio > 50 THEN "critical" ELSE "warning", "Visual content ratio exceeds ideal", 0)>>
                  ELSE <<>>
    IN IF metrics.content.totalBlocks = 0
       THEN Criterion(50, <<Issue("info", "Unable to assess - no content blocks found", 0)>>)
       ELSE Criterion(10 * score, issues)

\* TextOverVisualsRules.scoreAltTextCoverage (TB-03)
scoreAltTextCoverage(metrics) ==
    LET images == metrics.images
        coverage == images.altTextCoverage
        issues == IF images.withoutAlt > 0
                  THEN <<Issue(IF coverage < 50 THEN "critical" ELSE IF coverage < 80 THEN "warning" ELSE "info",
                               "images missing alt text", 0)>>
                       \o (IF Len(images.missingAlt) <= 5
                           THEN [i \in DOMAIN images.missingAlt |->
                                    Issue("info", "Image missing alt text", images.missingAlt[i].index + 1)]
                           ELSE <<>>)
                  ELSE <<>>
    IN IF images.count = 0 THEN Criterion(100, <<>>)
       ELSE Criterion(10 * RoundDiv(coverage, 10), issues)

TextOverVisualsOrder == <<"TB-01", "TB-02", "TB-03">>

TextOverVisualsWeights == [c \in {"TB-01", "TB-02", "TB-03"} |-> IF c = "TB-03" THEN 30 ELSE 35]

\* TextOverVisualsRules.scoreAll
TextOverVisualsScoreAll(metrics, content) ==
    RuleResult(TextOverVisualsOrder,
               [c \in {"TB-01", "TB-02", "TB-03"} |->
                   IF c = "TB-01" THEN scoreTextFirst(metrics, content)
                   ELSE IF c = "TB-02" THEN scoreImageRatio(metrics)
                   ELSE scoreAltTextCoverage(metrics)],
               TextOverVisualsWeights)

\* ----------------------------------------------------------- ClaudeClient
\* the 13 criteria the prompt of scoreSemanticCriteria asks for
ClaudeIds == {"CS-03", "CS-05", "OR-01", "OR-02", "OR-03", "OR-04", "GAP-03", "GAP-04",
              "PP-01", "PP-02", "PP-03", "PP-04", "AV-02"}

\* data.score < 4 ? 'critical' : data.score < 7 ? 'warning' : 'info'
SeverityOfScore(score) ==
    IF Lt(score, 40) THEN "critical" ELSE IF Lt(score, 70) THEN "warning" ELSE "info"

\* ClaudeClient.transformScores on a parsed response object: the score is
\* copied as it is, every issue string becomes an issue of the severity the
\* score gives
transformScores(claudeScores) ==
    [scores |-> [id \in DOMAIN claudeScores.scores |->
        LET data == claudeScores.scores[id]
        IN Criterion(data.score,
                     [i \in 1..data.issues |-> Issue(SeverityOfScore(data.score), id, i)])]]

\* ----------------------------------------------------------------- Scorer
CategoryKeys == {"content-structure", "outcomes-reversibility", "terminology",
                 "text-over-visuals", "self-contained", "permissions-plans"}

\* Scorer.CATEGORY_WEIGHTS, in hundredths
CATEGORY_WEIGHTS == [k \in CategoryKeys |->
    IF k = "content-structure" THEN 30
    ELSE IF k = "outcomes-reversibility" THEN 25
    ELSE IF k = "terminology" THEN 15
    ELSE IF k = "text-over-visuals" THEN 10
    ELSE IF k = "self-contained" THEN 5
    ELSE 15]

\* Scorer.THRESHOLDS, in tenths
THRESHOLD_GREEN == 70
THRESHOLD_YELLOW == 40

NoCategories == [k \in {} |-> 0]

\* results.categories[key] = category: a new key goes to the end of the
\* object's key order, an existing key keeps its place
SetCategory(results, key, category) ==
    [results EXCEPT !.categories = (key :> category) @@ results.categories,
                    !.catOrder = IF key \in DOMAIN results.categories
                                 THEN results.catOrder ELSE Append(results.catOrder, key)]

\* a faulty variant of Category: the weight is left out (0 stands for a
\* missing weight)
CategoryUnweighted(id, name, key, score, criteria, order, issues, estimated) ==
    [id |-> id, name |-> name, score |-> score, weight |-> 0,
     criteria |-> criteria, order |-> order, issues |-> issues, estimated |-> estimated]

Category(id, name, key, score, criteria, order, issues, estimated) ==
    [id |-> id, name |-> name, score |-> score, weight |-> CATEGORY_WEIGHTS[key],
     criteria |-> criteria, order |-> order, issues |-> issues, estimated |-> estimated]

\* scores.reduce((a, b) => a + b, 0) / scores.length, rounded to one
\* decimal; 0 for no score
MeanOf(scores) ==
    IF Len(scores) = 0 THEN 0
    ELSE IF SumNum(scores) = NaN THEN NaN
    ELSE RoundDiv(SumNum(scores), Len(scores))

\* Scorer.averageScores: mean of the criteria scores that are numbers,
\* rounded to one decimal; 0 when there is none
averageScores(order, criteria) ==
    MeanOf(SelectSeq([i \in DOMAIN order |-> criteria[order[i]].score], TypeofNumber))

\* the criteria of ids that the transformed response holds, in the order of ids
PresentIds(ids, scores) == SelectSeq(ids, LAMBDA id : id \in DOMAIN scores)

\* one semantic category of addClaudeScores
SemanticCategory(id, name, key, order, criteria) ==
    Category(id, name, key, averageScores(order, criteria), criteria, order,
             CriteriaIssues(order, criteria), FALSE)

ClaudeCategory(id, name, key, ids, scores) ==
    SemanticCategory(id, name, key, PresentIds(ids, scores),
                     [c \in Range(PresentIds(ids, scores)) |-> scores[c]])

\* a semantic criterion (CS-03, CS-05) added to the content-structure category
AddCriterion(category, id, scores) ==
    IF id \in DOMAIN scores
    THEN [category EXCEPT !.criteria = (id :> scores[id]) @@ category.criteria,
                          !.order = IF id \in DOMAIN category.criteria
                                    THEN category.order ELSE Append(category.order, id),
                          !.issues = category.issues \o scores[id].issues]
    ELSE category

\* the AV-02 merge: the criterion of the terminology category gets the
\* rounded mean of both scores and the semantic issues appended
MergeAV02(category, scores) ==
    IF "AV-02" \in DOMAIN scores /\ "AV-02" \in DOMAIN category.criteria
    THEN LET existing == category.criteria["AV-02"]
             sum == Plus(existing.score, scores["AV-02"].score)
         IN [category EXCEPT !.criteria["AV-02"] =
                Criterion(IF sum = NaN THEN NaN ELSE 10 * RoundDiv(sum, 20),
                          existing.issues \o scores["AV-02"].issues)]
    ELSE category

\* a faulty variant of Rescore: the score of the rule evaluator is kept
RescoreKept(category) == category

\* category.score = averageScores(Object.values(category.criteria))
Rescore(category) == [category EXCEPT !.score = averageScores(category.order, category.criteria)]

\* the second half of addClaudeScores: CS-03 and CS-05 join
\* content-structure, whose score becomes the mean of its criteria, and
\* AV-02 is merged into terminology
MergeSemantic(results, scores) ==
    [results EXCEPT
        !.categories["content-structure"] =
            Rescore(AddCriterion(AddCriterion(results.categories["content-structure"], "CS-03", scores),
                                 "CS-05", scores)),
        !.categories["terminology"] = MergeAV02(results.categories["terminology"], scores)]

\* the first half of addClaudeScores: the three semantic categories
SemanticCategories(results, scores) ==
    SetCategory(
        SetCategory(
            SetCategory(results, "outcomes-reversibility",
                ClaudeCategory("CAT-03", "Outcomes & Reversibility", "outcomes-reversibility",
                               <<"OR-01", "OR-02", "OR-03", "OR-04">>, scores)),
            "self-contained",
            ClaudeCategory("CAT-09", "Self-Contained Context", "self-contained",
                           <<"GAP-03", "GAP-04">>, scores)),
        "permissions-plans",
        ClaudeCategory("CAT-04", "Permissions & Plans", "permissions-plans",
                       <<"PP-01", "PP-02", "PP-03", "PP-04">>, scores))

\* Scorer.addClaudeScores
addClaudeScores(results, transformedScores) ==
    MergeSemantic(SemanticCategories(results, transformedScores.scores), transformedScores.scores)

\* text.includes(term) for some term of terms; a word includes a term when
\* the term is a substring of it
Includes(word, term) == word = term \/ (word = "explanation" /\ term = "plan")

hasAny(text, terms) == \E w \in DOMAIN text : text[w] > 0 /\ \E t \in terms : Includes(w, t)

\* an estimated category: one criterion EST-.. sharing score and issues
EstimatedCategory(id, name, key, est, score, issues) ==
    Category(id, name, key, score, (est :> Criterion(score, issues)), <<est>>, issues, TRUE)

\* Scorer.addEstimatedScores
addEstimatedScores(results, content, metrics) ==
    LET text == content.text
        destructive == hasAny(text, {"delete", "remove", "erase", "discard", "wipe", "purge"})
                       /\ ~hasAny(text, {"cannot be undone", "irreversible", "permanent", "warning", "caution"})
        outcome == hasAny(text, {"will", "results in", "creates", "updates", "changes", "affects"})
        outcomeScore == Clamp(10 * (6 - (IF destructive THEN 2 ELSE 0) + (IF outcome THEN 1 ELSE 0)))
        outcomeIssues == IF destructive
                         THEN <<Issue("warning", "Destructive actions detected without reversibility warning", 0)>>
                         ELSE <<>>
        permission == hasAny(text, {"admin", "permission", "role", "access", "privilege"})
        plan == hasAny(text, {"plan", "edition", "subscription", "upgrade"})
        permissionsScore == Clamp(10 * (6 + (IF permission THEN 1 ELSE 0) + (IF plan THEN 1 ELSE 0)
                                          - (IF ~permission /\ ~plan THEN 1 ELSE 0)))
        permissionsIssues == IF ~permission /\ ~plan
                             THEN <<Issue("info", "No explicit permissions or plan requirements detected", 0)>>
                             ELSE <<>>
        externalHeavy == metrics.links.external > metrics.links.internal
        lowWords == metrics.content.wordCount < 200
        noHeadings == metrics.headings.count = 0
        contextScore == Clamp(10 * (6 - (IF externalHeavy THEN 1 ELSE 0) - (IF lowWords THEN 1 ELSE 0)
                                      - (IF noHeadings THEN 1 ELSE 0)))
        contextIssues == (IF externalHeavy THEN <<Issue("info", "Relies heavily on external links for context", 0)>> ELSE <<>>)
                         \o (IF lowWords THEN <<Issue("info", "Low word count may indicate insufficient context", 0)>> ELSE <<>>)
                         \o (IF noHeadings THEN <<Issue("warning", "No headings detected to anchor context", 0)>> ELSE <<>>)
        r1 == SetCategory(results, "outcomes-reversibility",
                  EstimatedCategory("CAT-03", "Outcomes & Reversibility", "outcomes-reversibility",
                                    "EST-OR", outcomeScore, outcomeIssues))
        r2 == SetCategory(r1, "permissions-plans",
                  EstimatedCategory("CAT-04", "Permissions & Plans", "permissions-plans",
                                    "EST-PP", permissionsScore, permissionsIssues))
    IN SetCategory(r2, "self-contained",
          EstimatedCategory("CAT-09", "Self-Contained Context", "self-contained",
                            "EST-SC", contextScore, contextIssues))

\* buildSectionMetrics of addSectionScores: the metrics of one section, as
\* far as scoreParagraphBrevity and scoreListUsage read them
buildSectionMetrics(section) ==
    LET ps == section.paragraphs
        RECURSIVE Long(_, _)
        Long(i, n) == IF i > Len(ps) THEN <<>>
                      ELSE IF ps[i] > 150 THEN <<[wordCount |-> ps[i], index |-> n]>> \o Long(i + 1, n + 1)
                      ELSE Long(i + 1, n)
    IN [paragraphs |-> [count |-> Len(ps),
                        longCount |-> Len(Long(1, 0)),
                        longParagraphs |-> Long(1, 0),
                        sentences |-> [present |-> TRUE, total |-> 0, longCount |-> 0,
                                       complexCount |-> 0, longSamples |-> <<>>]],
        lists |-> [count |-> Len(section.lists),
                   listToParagraphRatio |-> IF Len(ps) > 0 THEN RoundDiv(100 * Len(section.lists), Len(ps)) ELSE 0,
                   orderedCount |-> Undefined,
                   proceduralCount |-> Undefined,
                   descriptiveCount |-> Undefined]]

\* the score of one section: mean of its CS-01 and CS-02, one decimal
SectionScore(section) ==
    RoundDiv(scoreParagraphBrevity(buildSectionMetrics(section)).score
             + scoreListUsage(buildSectionMetrics(section)).score, 2)

\* the mean of the section scores, one decimal
Rollup(sectionScores) == RoundDiv(SumSeq(sectionScores), Len(sectionScores))

\* the blend of addSectionScores: content-structure becomes the mean of
\* its score and the rollup, one decimal
BlendSections(results, rollupScore) ==
    [results EXCEPT
        !.categories["content-structure"].score =
            IF Plus(@, rollupScore) = NaN THEN NaN ELSE RoundDiv(ToNumber(@) + rollupScore, 2),
        !.sectionRollup = rollupScore]

\* Scorer.addSectionScores
addSectionScores(results, content) ==
    IF Len(content.sections) = 0 THEN results
    ELSE BlendSections(results,
             Rollup([i \in DOMAIN content.sections |-> SectionScore(content.sections[i])]))

\* the loop of Scorer.calculateCompositeScore over the categories from
\* position i on: <<weightedSum, totalWeight>>; a NaN score makes the sum NaN
RECURSIVE CompositeSums(_, _, _)
CompositeSums(categories, order, i) ==
    IF i > Len(order) THEN <<0, 0>>
    ELSE LET category == categories[order[i]]
             rest == CompositeSums(categories, order, i + 1)
             weight == IF category.weight # 0 THEN category.weight
                       ELSE IF order[i] \in CategoryKeys THEN CATEGORY_WEIGHTS[order[i]]
                       ELSE 0
         IN IF category.score # Null /\ ~category.estimated
            THEN << IF category.score = NaN \/ rest[1] = NaN THEN NaN ELSE category.score * weight + rest[1],
                    weight + rest[2] >>
            ELSE rest

\* a faulty variant of calculateCompositeScore: the weighted sum is not
\* renormalized by the weights included (the table's weights sum to 1)
calculateCompositeScoreUnnormalized(categories, order) ==
    IF CompositeSums(categories, order, 1)[2] = 0 THEN 0
    ELSE IF CompositeSums(categories, order, 1)[1] = NaN THEN NaN
    ELSE RoundDiv(CompositeSums(categories, order, 1)[1], 100)

\* Scorer.calculateCompositeScore, in tenths
calculateCompositeScore(categories, order) ==
    LET sums == CompositeSums(categories, order, 1)
    IN IF sums[2] = 0 THEN 0
       ELSE IF sums[1] = NaN THEN NaN
       ELSE RoundDiv(sums[1], sums[2])

\* a faulty variant of getStatus: the thresholds themselves fall into the
\* lower bucket
getStatusStrict(score) ==
    IF Gt(score, THRESHOLD_GREEN) THEN "green"
    ELSE IF Gt(score, THRESHOLD_YELLOW) THEN "yellow"
    ELSE "red"

\* Scorer.getStatus
getStatus(score) ==
    IF Ge(score, THRESHOLD_GREEN) THEN "green"
    ELSE IF Ge(score, THRESHOLD_YELLOW) THEN "yellow"
    ELSE "red"

\* the flatMap of Scorer.collectAllIssues: every category's issues, in the
\* key order of categories, tagged with the category's name and key
TaggedIssues(categories, order) ==
    Flatten([i \in DOMAIN order |->
        [j \in DOMAIN categories[order[i]].issues |->
            [severity |-> categories[order[i]].issues[j].severity,
             message |-> categories[order[i]].issues[j].message,
             at |-> categories[order[i]].issues[j].at,
             category |-> categories[order[i]].name,
             categoryKey |-> order[i]]]])

\* Scorer.collectAllIssues
collectAllIssues(categories, order) == SortBySeverity(TaggedIssues(categories, order))

\* a faulty variant of getTopIssues: the list is not cut
getTopIssuesUncut(issues, n) == issues

\* Scorer.getTopIssues
getTopIssues(issues, n) == Slice(issues, n)

\* ------------------------------------------------ analysis text and hash
\* strings are sequences of UTF-16 code units
StrTitle == <<35, 32, 84>>
StrHeadingBreak == <<10, 10>>
StrHeadingText == <<32, 104>>
StrParagraphs == <<10, 35, 35, 32, 67, 111, 110, 116, 101, 110, 116, 32, 80, 97, 114, 97, 103, 114, 97, 112, 104, 115, 58>>
StrLists == <<10, 35, 35, 32, 76, 105, 115, 116, 115, 58>>
StrCallouts == <<10, 35, 35, 32, 67, 97, 108, 108, 111, 117, 116, 115, 58>>
StrTable == <<10, 35, 35, 32, 84, 97, 98, 108, 101, 32>>
StrCodeBlocks == <<10, 35, 35, 32, 67, 111, 100, 101, 32, 66, 108, 111, 99, 107, 115, 58>>
StrFence == <<96, 96, 96>>
NewLine == 10
Hash == 35
CharP == 112
CharDash == 45
CharDot == 46
CharSpace == 32
CharOpen == 91
CharClose == 93

\* the decimal digit of a one-digit number
Digit(n) == 48 + n

Repeat(c, n) == [i \in 1..n |-> c]

\* the first letter of a list item of the given kind
ItemChar(kind) == IF kind = "click" THEN 99 ELSE IF kind = "add" THEN 97 ELSE IF kind = "steps" THEN 115 ELSE 120

\* sections.join('\n')
RECURSIVE JoinLines(_)
JoinLines(lines) ==
    IF lines = <<>> THEN <<>>
    ELSE IF Len(lines) = 1 THEN lines[1]
    ELSE lines[1] \o <<NewLine>> \o JoinLines(Tail(lines))

\* String.prototype.trim on the code units used here
RECURSIVE TrimLeft(_)
TrimLeft(t) == IF t # <<>> /\ Head(t) \in {NewLine, CharSpace} THEN TrimLeft(Tail(t)) ELSE t

RECURSIVE TrimRight(_)
TrimRight(t) == IF t # <<>> /\ t[Len(t)] \in {NewLine, CharSpace} THEN TrimRight(SubSeq(t, 1, Len(t) - 1)) ELSE t

\* Parser.getTextForAnalysis.  The page title is "T", every heading text
\* "h", every paragraph text "p", a list item is the first letter of its
\* kind, a callout is a note "c", tables have no caption, header or row and
\* a code block is the text "x" of unknown language.
getTextForAnalysis(content) ==
    LET hs == content.headings
        ls == content.lists
        headingText == Flatten([i \in DOMAIN hs |-> StrHeadingBreak \o Repeat(Hash, hs[i]) \o StrHeadingText])
        listLines(i) == << <<CharOpen, 76, 105, 115, 116, CharSpace, Digit(i), CharSpace, CharDash, CharSpace>>
                           \o (IF ls[i].type = "ol" THEN <<111, 108>> ELSE <<117, 108>>) \o <<CharClose>> >>
                        \o [j \in DOMAIN ls[i].items |->
                              <<CharSpace, CharSpace>>
                              \o (IF ls[i].type = "ol" THEN <<Digit(j), CharDot>> ELSE <<CharDash>>)
                              \o <<CharSpace, ItemChar(ls[i].items[j])>>]
        lines == << StrTitle >>
                 \o (IF Len(hs) > 0 THEN << headingText >> ELSE <<>>)
                 \o (IF Len(content.paragraphs) > 0
                     THEN << StrParagraphs >>
                          \o [i \in DOMAIN content.paragraphs |-> <<CharOpen, 80, Digit(i), CharClose, CharSpace, CharP>>]
                     ELSE <<>>)
                 \o (IF Len(ls) > 0 THEN << StrLists >> \o Flatten([i \in DOMAIN ls |-> listLines(i)]) ELSE <<>>)
                 \o (IF content.callouts > 0
                     THEN << StrCallouts >>
                          \o [i \in 1..content.callouts |->
                                <<CharOpen, 67, 97, 108, 108, 111, 117, 116, CharSpace, Digit(i % 10), CharSpace,
                                  CharDash, CharSpace, 110, 111, 116, 101, CharClose, CharSpace, 99>>]
                     ELSE <<>>)
                 \o [i \in 1..Min(content.tables, 3) |-> StrTable \o <<Digit(i)>>]
                 \o (IF content.codeBlocks > 0
                     THEN << StrCodeBlocks >>
                          \o Flatten([i \in 1..Min(content.codeBlocks, 3) |->
                                << <<CharOpen, 67, 111, 100, 101, CharSpace, Digit(i), CharClose>>,
                                   StrFence, <<120>>, StrFence >>])
                     ELSE <<>>)
    IN TrimRight(TrimLeft(JoinLines(lines)))

\* the bit of weight p (a power of two) of the exclusive or of two naturals
XorBit(a, b, p) == (((a \div p) + (b \div p)) % 2) * p

\* the exclusive or of two 4-bit naturals, tabulated
XorNibble == [a \in 0..15 |-> [b \in 0..15 |->
                 XorBit(a, b, 1) + XorBit(a, b, 2) + XorBit(a, b, 4) + XorBit(a, b, 8)]]

\* bitwise exclusive or of two 16-bit naturals, four bits at a time
Xor(a, b) ==
    XorNibble[a % 16][b % 16]
    + 16 * XorNibble[(a \div 16) % 16][(b \div 16) % 16]
    + 256 * XorNibble[(a \div 256) % 16][(b \div 256) % 16]
    + 4096 * XorNibble[(a \div 4096) % 16][(b \div 4096) % 16]

\* one round of Scorer.hashText on the 32-bit hash <<high half, low half>>:
\*   hash ^= c; hash += (hash<<1) + (hash<<4) + (hash<<7) + (hash<<8) + (hash<<24)
\* which is hash * 16777619 in 32 bits; 16777619 = 2^24 + 403
HashRound(h, c) ==
    LET lo == Xor(h[2], c)
        hi == h[1]
        lo403 == lo * 403
    IN << (hi * 403 + (lo403 \div 65536) + (lo % 256) * 256) % 65536, lo403 % 65536 >>

\* the loop of Scorer.hashText over text[from..to], left to right; the range
\* is folded by halves so that the evaluation depth stays logarithmic
RECURSIVE HashFrom(_, _, _, _)
HashFrom(h, text, from, to) ==
    IF from > to THEN h
    ELSE IF from = to THEN HashRound(h, text[from])
    ELSE LET mid == (from + to) \div 2
             left == HashFrom(h, text, from, mid)
         IN IF left[1] >= 0 THEN HashFrom(left, text, mid + 1, to) ELSE h

\* Scorer.hashText: the hash starts at 2166136261 = 0x811C9DC5; the result
\* (hash >>> 0).toString(16) is kept as its two 16-bit halves
hashText(text) == HashFrom(<<33052, 40389>>, text, 1, Len(text))

\* ---------------------------------------------------------------- Storage
MAX_CACHE_ITEMS == 50
CACHE_TTL_MS == 604800000

\* a faulty variant of getClaudeCache: the SyntaxError of JSON.parse is not
\* caught
getClaudeCacheUncaught(cache, corrupt) == [threw |-> corrupt, cache |-> cache]

\* Storage.getClaudeCache: the parsed map, the empty map when the stored
\* string cannot be read or parsed; threw tells whether the call throws
getClaudeCache(cache, corrupt) == [threw |-> FALSE, cache |-> IF corrupt THEN <<>> ELSE cache]

\* the positions of the cache (Object.entries order) that hold the key
CacheIndex(cache, hash) == { i \in DOMAIN cache : cache[i].key = hash }

RemoveAt(s, i) == SubSeq(s, 1, i - 1) \o SubSeq(s, i + 1, Len(s))

\* a faulty variant of getClaudeCacheEntry: the age of the entry is not
\* looked at
getClaudeCacheEntryAnyAge(cache, hash, now) ==
    IF CacheIndex(cache, hash) = {}
    THEN [hit |-> FALSE, cache |-> cache, wrote |-> FALSE]
    ELSE [hit |-> TRUE, entry |-> cache[CHOOSE j \in CacheIndex(cache, hash) : TRUE], cache |-> cache,
          wrote |-> FALSE]

\* Storage.getClaudeCacheEntry on the map getClaudeCache gave: [hit, entry,
\* cache afterwards, wrote]; an entry older than CACHE_TTL_MS is deleted,
\* the map is written back and the read is a miss
getClaudeCacheEntry(cache, hash, now) ==
    IF CacheIndex(cache, hash) = {}
    THEN [hit |-> FALSE, cache |-> cache, wrote |-> FALSE]
    ELSE LET i == CHOOSE j \in CacheIndex(cache, hash) : TRUE
         IN IF now - cache[i].savedAt > CACHE_TTL_MS
            THEN [hit |-> FALSE, cache |-> RemoveAt(cache, i), wrote |-> TRUE]
            ELSE [hit |-> TRUE, entry |-> cache[i], cache |-> cache, wrote |-> FALSE]

\* a faulty variant of InsertNewestFirst: the sort is oldest first
RECURSIVE InsertOldestFirst(_, _)
InsertOldestFirst(x, s) ==
    IF s = <<>> THEN <<x>>
    ELSE IF Head(s).savedAt <= x.savedAt THEN <<Head(s)>> \o InsertOldestFirst(x, Tail(s))
    ELSE <<x>> \o s

\* one step of the sort by savedAt, newest first; equal stamps keep their order
RECURSIVE InsertNewestFirst(_, _)
InsertNewestFirst(x, s) ==
    IF s = <<>> THEN <<x>>
    ELSE IF Head(s).savedAt >= x.savedAt THEN <<Head(s)>> \o InsertNewestFirst(x, Tail(s))
    ELSE <<x>> \o s

RECURSIVE SortNewestFirst(_)
SortNewestFirst(s) ==
    IF s = <<>> THEN <<>>
    ELSE InsertNewestFirst(s[Len(s)], SortNewestFirst(SubSeq(s, 1, Len(s) - 1)))

\* a faulty variant of saveClaudeCacheEntry: nothing is written
saveClaudeCacheEntrySkipped(cache, hash, payload, now) == cache

\* Storage.saveClaudeCacheEntry: set cache[hash], sort newest first, keep
\* the first MAX_CACHE_ITEMS.  The entry is stored as JSON and parsed again
\* on reading; raw and transformed are built from a parsed JSON response
\* (numbers, null, strings, arrays), on which stringify and parse give the
\* value back, so the entry is kept as the value itself
saveClaudeCacheEntry(cache, hash, payload, now) ==
    LET entry == [key |-> hash, raw |-> payload.raw, transformed |-> payload.transformed, savedAt |-> now]
        set == IF CacheIndex(cache, hash) = {} THEN Append(cache, entry)
               ELSE [i \in DOMAIN cache |-> IF cache[i].key = hash THEN entry ELSE cache[i]]
    IN Slice(SortNewestFirst(set), MAX_CACHE_ITEMS)

\* ----------------------------------------------------------------- inputs
EmptyText == [w \in {} |-> 0]

\* two pages, a plain one and one with a list, images, a table and
\* destructive wording; every other page varies one part of one of them
PlainPage == [paragraphs |-> <<20, 20>>, headings |-> <<1, 2>>, lists |-> <<>>, images |-> <<>>,
              tables |-> 0, codeBlocks |-> 0, callouts |-> 0, links |-> <<>>,
              wordCount |-> 400, text |-> EmptyText, sections |-> <<>>]

RichPage == [paragraphs |-> <<210, 20>>, headings |-> <<2, 4>>,
             lists |-> <<[type |-> "ul", items |-> <<"click", "plain">>]>>,
             images |-> ImageSeq(6, 1), tables |-> 1, codeBlocks |-> 0, callouts |-> 0,
             links |-> <<>>,
             wordCount |-> 150, text |-> ("delete" :> 1) @@ ("remove" :> 2), sections |-> <<>>]

BasePages == {PlainPage, RichPage}

\* the word sets of the texts: no word of Vocab, one, or a pair that the
\* terminology rules or the Estimator treat together
TextWordSets == {{}} \cup { {w} : w \in {"delete", "warning", "will", "admin", "explanation", "editing"} }
                \cup { {"delete", "remove"}, {"deactivate", "disable"}, {"uninstall", "remove"},
                       {"delete", "warning"}, {"editing", "edits"}, {"admin", "plan"}, {"will", "delete"} }

\* the texts over these word sets, each word at most MaxTermCount times
Texts == UNION { [ws -> 1..MaxTermCount] : ws \in TextWordSets }

BlockCounts == { <<0, 0, 0>>, <<1, 0, 0>>, <<0, 12, 0>>, <<0, 0, 1>> }

\* the numbers of images tried
ImageCounts == {0, 1, 2, MaxImages}

\* PlainPage with other paragraphs, headings, links, words or blocks
PlainVariants ==
    { [PlainPage EXCEPT !.paragraphs = x] : x \in SeqsUpTo(ParagraphWords, MaxParagraphs) }
    \cup { [PlainPage EXCEPT !.headings = x] : x \in SeqsUpTo(HeadingLevels, MaxHeadings) }
    \cup { [PlainPage EXCEPT !.links = x] : x \in SeqsUpTo(LinkKinds, MaxLinks) }
    \cup { [PlainPage EXCEPT !.text = x] : x \in Texts }
    \cup { [PlainPage EXCEPT !.wordCount = x] : x \in WordCounts }
    \cup { [PlainPage EXCEPT !.tables = x[1], !.codeBlocks = x[2], !.callouts = x[3]] : x \in BlockCounts }

\* RichPage with other lists, images, sections or links
RichVariants ==
    { [RichPage EXCEPT !.lists = x] : x \in SeqsUpTo(ListKinds, MaxLists) }
    \cup { [RichPage EXCEPT !.images = ImageSeq(n, k)] : n \in ImageCounts, k \in 0..MaxImages }
    \cup { [RichPage EXCEPT !.sections = x] : x \in SeqsUpTo(SectionKinds, MaxSections) }
    \cup { [RichPage EXCEPT !.links = x] : x \in SeqsUpTo(LinkKinds, MaxLinks) }

Pages == PlainVariants \cup RichVariants

\* the score values a response may carry for a criterion, in tenths: in
\* range, out of range, and null
ScoreValues == {-10, 35, 70, 150, Null}

OddIds == {"CS-03", "OR-01", "OR-03", "GAP-03", "PP-01", "PP-03", "AV-02"}

ResponseShapes == { {},
                    ClaudeIds \ {"OR-01", "OR-02", "OR-03", "OR-04"},
                    ClaudeIds \ {"GAP-03", "GAP-04", "PP-01", "PP-02", "PP-03", "PP-04", "CS-05"},
                    {"OR-01", "OR-02", "OR-03", "AV-02"} }

\* a parsed response: the criteria of shape, score a for the ids of OddIds
\* and b for the others, n issue strings each
Response(shape, a, b, n) ==
    [kind |-> "object",
     scores |-> [id \in shape |-> [score |-> IF id \in OddIds THEN a ELSE b, issues |-> n]]]

\* JSON null
NullResponse == [kind |-> "null", scores |-> [id \in {} |-> 0]]

Responses == { Response(shape, a, b, 0) : shape \in ResponseShapes, a \in ScoreValues, b \in ScoreValues }
             \cup { Response(ClaudeIds, a, b, n) : a \in ScoreValues, b \in ScoreValues, n \in 0..MaxClaudeIssues }
             \cup {NullResponse}

CoreResponses == { Response(ClaudeIds, 35, 70, 1),
                   Response(ClaudeIds \ {"OR-01", "OR-02", "OR-03", "OR-04"}, 70, 35, 0),
                   NullResponse }

\* the responses tried for a page: all of them for the two base pages
ResponsesFor(page) == IF page \in BasePages THEN Responses ELSE CoreResponses

\* the errors ClaudeClient.request and scoreSemanticCriteria throw
ErrorMessages == {"Invalid API key. Please check your Claude API key.",
                  "Rate limit exceeded. Please wait and try again.",
                  "Network error. Please check your internet connection.",
                  "Failed to parse Claude response as JSON"}

StartTime == CACHE_TTL_MS + 1

CacheEntry(hash, raw, savedAt) ==
    [key |-> hash, raw |-> raw, transformed |-> transformScores(raw), savedAt |-> savedAt]

\* what an earlier session may have left in the cache (the stored string
\* may also be no JSON at all, see Init): nothing or a fresh
\* entry for this page's text and, for the two base pages with a key, an
\* entry exactly at its TTL, an expired one, and one for another text
InitialCaches(page, withKey) ==
    LET hash == hashText(getTextForAnalysis(page))
        other == hashText(<<Hash, CharSpace, 90>>)
        core == Response(ClaudeIds, 35, 70, 1)
    IN { <<>>, <<CacheEntry(hash, core, StartTime)>> }
       \cup (IF withKey /\ page \in BasePages
             THEN { <<CacheEntry(hash, core, 0)>>,
                    <<CacheEntry(hash, core, 1)>>,
                    <<CacheEntry(other, core, StartTime)>> }
             ELSE {})

\* -------------------------------------------------------------------- App
\* the kinds of JavaScript value a field of the posted content may hold:
\* undefined (the field is missing), null, the empty string, a number other
\* than 0, a string that is not empty, an object
ValueKinds == {"undefined", "null", "empty", "number", "string", "object"}

\* !x is false
Truthy(kind) == kind \in {"number", "string", "object"}

\* typeof x === 'string'
TypeofString(kind) == kind \in {"empty", "string"}

\* the posted content: the kinds of the values Parser.validate looks at
\* and the page the content describes
RawContent(kind, meta, url, structure, text, fullText, page) ==
    [kind |-> kind, meta |-> meta, url |-> url, structure |-> structure, text |-> text,
     fullText |-> fullText, page |-> page]

\* what the bookmarklet extracts from RichPage
RichContent == RawContent("object", "object", "string", "object", "object", "string", RichPage)

\* no content, content whose parts are missing, null or of another type in
\* every combination, and the content the bookmarklet extracts from a page;
\* a property of a value that is no object is undefined
RawContents ==
    { RawContent(k, "undefined", "undefined", "undefined", "undefined", "undefined", PlainPage) :
          k \in {"null", "undefined", "string"} }
    \cup { RawContent("object", m[1], m[2], st, t[1], t[2], PlainPage) :
               m \in {<<"undefined", "undefined">>, <<"object", "undefined">>,
                      <<"object", "empty">>, <<"object", "string">>},
               st \in {"undefined", "object"},
               t \in {<<"undefined", "undefined">>, <<"object", "undefined">>, <<"object", "number">>,
                      <<"object", "empty">>, <<"object", "string">>} }
    \cup {RichContent}

\* a faulty variant of validate: the structure is not looked at
validateLax(content) ==
    IF ~Truthy(content.kind)
    THEN [isValid |-> FALSE, errors |-> <<"Content is null or undefined">>]
    ELSE LET errors ==
                 (IF ~Truthy(content.meta) \/ ~Truthy(content.url)
                  THEN <<"Missing meta information or URL">> ELSE <<>>)
                 \o (IF ~Truthy(content.text) \/ ~TypeofString(content.fullText)
                     THEN <<"Missing or invalid text content">> ELSE <<>>)
         IN [isValid |-> errors = <<>>, errors |-> errors]

\* Parser.validate
validate(content) ==
    IF ~Truthy(content.kind)
    THEN [isValid |-> FALSE, errors |-> <<"Content is null or undefined">>]
    ELSE LET errors ==
                 (IF ~Truthy(content.meta) \/ ~Truthy(content.url)
                  THEN <<"Missing meta information or URL">> ELSE <<>>)
                 \o (IF ~Truthy(content.structure) THEN <<"Missing structure data">> ELSE <<>>)
                 \o (IF ~Truthy(content.text) \/ ~TypeofString(content.fullText)
                     THEN <<"Missing or invalid text content">> ELSE <<>>)
         IN [isValid |-> errors = <<>>, errors |-> errors]

\* Parser.normalize: throws Error('Invalid content: ' + the errors) or
\* returns the content with its metrics; the message is kept as its parts
normalize(content) ==
    IF ~validate(content).isValid
    THEN [threw |-> TRUE, message |-> <<"Invalid content: ">> \o validate(content).errors, content |-> <<>>]
    ELSE [threw |-> FALSE, message |-> <<>>, content |-> <<content.page>>]

\* App.state before any content arrived, no handler suspended; content and
\* results are <<>> for null and a one-element sequence otherwise, error is
\* <<>> for null and the parts of the message otherwise; posted is the
\* content the bookmarklet of the opening page extracted
NoApp == [content |-> <<>>, results |-> <<>>, isScoring |-> FALSE, view |-> "landing", error |-> <<>>,
          handlers |-> <<>>, posted |-> <<>>, posts |-> 0, clicks |-> 0, calls |-> 0]

\* the report a call of Scorer.scoreAll returns to the App: the content it
\* was called with and which call it was; call 0 is a report taken from
\* the result cache
Report(page, call) == [of |-> page, call |-> call]

\* App.showError
showError(a, message) == [a EXCEPT !.error = message]

\* App.runScoring after scoreAll returned results: the report is cached,
\* held and put in the history; thrownAt names the storage write that
\* throws (localStorage.setItem over quota), "none" if none does
AfterScoreAll(a, report, thrownAt) ==
    IF thrownAt = "saveResultCacheEntry"
    THEN showError([a EXCEPT !.isScoring = FALSE], <<"Scoring failed: ", "QuotaExceededError">>)
    ELSE IF thrownAt = "saveToHistory"
    THEN showError([a EXCEPT !.results = <<report>>, !.isScoring = FALSE],
                   <<"Scoring failed: ", "QuotaExceededError">>)
    ELSE [a EXCEPT !.results = <<report>>, !.view = "results", !.isScoring = FALSE]

\* App.runScoring up to the point where it returns or suspends: cached
\* tells whether the result cache holds a report for the content, pending
\* whether scoreAll has to wait for the remote call (it returns within the
\* task otherwise: no key, or a hit in the Claude cache)
runScoring(a, cached, pending, thrownAt) ==
    IF a.content = <<>> THEN showError(a, <<"No content to score">>)
    ELSE IF cached
    THEN [a EXCEPT !.isScoring = FALSE, !.error = <<>>, !.results = <<Report(a.content[1], 0)>>,
                   !.view = "results"]
    ELSE IF pending
    THEN [a EXCEPT !.isScoring = TRUE, !.error = <<>>, !.calls = @ + 1,
                   !.handlers = Append(@, [at |-> "scoreAll", content |-> a.content[1], call |-> a.calls + 1])]
    ELSE AfterScoreAll([a EXCEPT !.isScoring = TRUE, !.error = <<>>, !.calls = @ + 1],
                       Report(a.content[1], a.calls + 1), thrownAt)

\* ------------------------------------------------------------------ state
VARIABLES
    pc,          \* where the run of Scorer.scoreAll stands: idle, rules
                 \* (suspended at await Promise.all), awaiting (suspended at
                 \* await scoreSemanticCriteria), done (report returned),
                 \* aborted (scoreAll rejected)
    content,     \* the NormalizedContent being scored
    apiKey,      \* whether a Claude API key is supplied
    results,     \* the report under construction, the returned report at done
    cache,       \* localStorage aiDocScorer_claudeCache, in Object.entries order
    now,         \* Date.now()
    remoteCalls, \* calls of ClaudeClient.scoreSemanticCriteria in this run
    cacheReads,  \* calls of Storage.getClaudeCacheEntry in this run
    cacheKey,    \* the local const cacheKey of the suspended scoreAll
    progress,    \* the percents handed to onProgress in this run
    waited,      \* clock steps taken so far while a remote call was pending
    runs,        \* runs started
    thrown,      \* the message of the error caught in this run, "none" if none
    atStart,     \* the cache, the clock and corrupt as the run found them, and
                 \* the report the run before returned if it had no key
    fnIn,        \* argument of the function applied (function specifications)
    fnOut,       \* its result
    app,         \* App.state and the handlers of the page that are suspended
    corrupt      \* whether the stored aiDocScorer_claudeCache string is no JSON

vars == <<pc, content, apiKey, results, cache, now, remoteCalls, cacheReads, cacheKey, progress, waited, runs,
          thrown, atStart, fnIn, fnOut, app, corrupt>>

MaxRuns == 2

NoResults == [meta |-> [mode |-> "none", claudeError |-> "none", claudeCache |-> "none"],
              categories |-> NoCategories, catOrder |-> <<>>, compositeScore |-> 0,
              status |-> "none", allIssues |-> <<>>, topIssues |-> <<>>, sectionRollup |-> Null]

\* a faulty variant of NewResults: the mode does not follow the key
NewResultsFull(key) == [NoResults EXCEPT !.meta.mode = "full"]

\* the results object scoreAll starts from
NewResults(key) == [NoResults EXCEPT !.meta.mode = IF key THEN "full" ELSE "rule-only"]

\* the three rule-based categories from the evaluators' results
RuleCategoriesOf(r, cs, tm, tv) ==
    SetCategory(
        SetCategory(
            SetCategory(r, "content-structure",
                Category("CAT-01", "Content Structure", "content-structure",
                         cs.categoryScore, cs.criteria, cs.order, cs.allIssues, FALSE)),
            "terminology",
            Category("CAT-02", "Consistent Terminology", "terminology",
                     tm.categoryScore, tm.criteria, tm.order, tm.allIssues, FALSE)),
        "text-over-visuals",
        Category("CAT-08", "Text Over Visuals", "text-over-visuals",
                 tv.categoryScore, tv.criteria, tv.order, tv.allIssues, FALSE))

\* step 1 of scoreAll: the three rule evaluators run and their categories
\* are stored
RuleCategories(r, c, metrics) ==
    RuleCategoriesOf(r, ContentStructureScoreAll(metrics), TerminologyScoreAll(c),
                     TextOverVisualsScoreAll(metrics, c))

\* steps 4 and 5 of scoreAll, given the composite and the sorted issues
Complete(r, composite, all) ==
    [r EXCEPT !.compositeScore = composite,
              !.status = getStatus(composite),
              !.allIssues = all,
              !.topIssues = getTopIssues(all, 5)]

\* steps 4 and 5 of scoreAll: composite and status, issues
Summarize(r) ==
    Complete(r, calculateCompositeScore(r.categories, r.catOrder),
             collectAllIssues(r.categories, r.catOrder))

\* a faulty variant of Finish: the section rollup comes after the composite
\* and the issues
FinishRollupLast(r, c) == addSectionScores(Summarize(r), c)

\* steps 3 to 5 of scoreAll: section rollup, composite and status, issues
Finish(r, c) == Summarize(addSectionScores(r, c))

\* a faulty variant of Fallback: the error message is not recorded
FallbackSilent(r, c, message) == addEstimatedScores(r, c, computeMetrics(c))

\* a faulty variant of Fallback: the catch block also recalculates the
\* content-structure score the way addClaudeScores does
FallbackRescoring(r, c, message) ==
    [addEstimatedScores(r, c, computeMetrics(c)) EXCEPT !.meta.claudeError = message,
                                                        !.categories["content-structure"] = Rescore(@)]

\* the catch block of scoreAll: estimated categories and meta.claudeError
Fallback(r, c, message) ==
    [addEstimatedScores(r, c, computeMetrics(c)) EXCEPT !.meta.claudeError = message]

Init ==
    /\ pc = "idle"
    /\ content \in Pages
    /\ apiKey \in BOOLEAN
    /\ now = StartTime
    /\ corrupt \in (IF apiKey /\ content \in BasePages THEN BOOLEAN ELSE {FALSE})
    /\ cache \in (IF corrupt THEN {<<>>} ELSE InitialCaches(content, apiKey))
    /\ results = NoResults
    /\ remoteCalls = 0
    /\ cacheReads = 0
    /\ cacheKey = <<>>
    /\ progress = <<>>
    /\ waited = 0
    /\ runs = 0
    /\ thrown = "none"
    /\ atStart = [cache |-> cache, now |-> now, ruleOnly |-> NoResults, corrupt |-> corrupt]
    /\ fnIn = <<>>
    /\ fnOut = 0
    /\ app = NoApp

\* scoreAll is called (processContent, Score Again): it builds the empty
\* report, reports the three 'rules' progress steps and suspends at
\* await Promise.all
Start ==
    /\ pc \in {"idle", "done", "aborted"}
    /\ runs < MaxRuns
    /\ pc' = "rules"
    /\ results' = NewResults(apiKey)
    /\ progress' = <<10, 25, 40>>
    /\ remoteCalls' = 0
    /\ cacheReads' = 0
    /\ cacheKey' = <<>>
    /\ runs' = runs + 1
    /\ thrown' = "none"
    /\ atStart' = [cache |-> cache, now |-> now, ruleOnly |-> IF apiKey THEN NoResults ELSE results,
                   corrupt |-> corrupt]
    /\ UNCHANGED <<content, apiKey, cache, now, waited, fnIn, fnOut, app, corrupt>>

\* a faulty variant of ScoreRuleOnly: the list the issues are collected in
\* outlives the run, so a later run reports the earlier issues again
ScoreRuleOnlyAccumulating ==
    /\ pc = "rules"
    /\ ~apiKey
    /\ results' = [Finish(addEstimatedScores(RuleCategories(results, content, computeMetrics(content)),
                                            content, computeMetrics(content)), content)
                     EXCEPT !.allIssues = atStart.ruleOnly.allIssues \o @]
    /\ progress' = progress \o <<90, 100>>
    /\ pc' = "done"
    /\ UNCHANGED <<content, apiKey, cache, now, remoteCalls, cacheReads, cacheKey, waited, runs, thrown, atStart,
                   fnIn, fnOut, app, corrupt>>

\* no API key: rules, Estimator, steps 3 to 5, return
ScoreRuleOnly ==
    /\ pc = "rules"
    /\ ~apiKey
    /\ results' = Finish(addEstimatedScores(RuleCategories(results, content, computeMetrics(content)),
                                            content, computeMetrics(content)), content)
    /\ progress' = progress \o <<90, 100>>
    /\ pc' = "done"
    /\ UNCHANGED <<content, apiKey, cache, now, remoteCalls, cacheReads, cacheKey, waited, runs, thrown, atStart,
                   fnIn, fnOut, app, corrupt>>

\* API key and an unexpired cache entry: rules, merge of the cached
\* transformed scores, steps 3 to 5, return
ScoreFromCache ==
    /\ pc = "rules"
    /\ apiKey
    /\ ~getClaudeCache(cache, corrupt).threw
    /\ LET key == hashText(getTextForAnalysis(content))
           cached == getClaudeCacheEntry(getClaudeCache(cache, corrupt).cache, key, now)
           r == RuleCategories(results, content, computeMetrics(content))
       IN /\ cached.hit
          /\ cacheKey' = key
          /\ results' = Finish(addClaudeScores([r EXCEPT !.meta.claudeCache = "hit"],
                                               cached.entry.transformed), content)
          /\ cache' = cached.cache
    /\ cacheReads' = cacheReads + 1
    /\ progress' = progress \o <<55, 80, 90, 100>>
    /\ pc' = "done"
    /\ UNCHANGED <<content, apiKey, now, remoteCalls, waited, runs, thrown, atStart, fnIn, fnOut, app, corrupt>>

\* a faulty variant of AfterCatch: the catch block throws the error again
\* and scoreAll rejects
AfterCatchRethrows == "aborted"

\* what a caught error leaves scoreAll in: the catch block does not throw
\* again, so the run goes on to steps 3 to 5 and returns
AfterCatch == "done"

\* the message of the SyntaxError of JSON.parse
ParseMessage == "Unexpected token in JSON"

\* API key and no usable cache entry: rules, the remote call is issued and
\* scoreAll suspends until it settles. A throw of the cache read would be
\* caught by the catch block of scoreAll like any error of the semantic step
CallRemote ==
    /\ pc = "rules"
    /\ apiKey
    /\ cacheReads' = cacheReads + 1
    /\ IF getClaudeCache(cache, corrupt).threw
       THEN /\ results' = Finish(Fallback(RuleCategories(results, content, computeMetrics(content)),
                                         content, ParseMessage), content)
            /\ progress' = progress \o <<55, 90, 100>>
            /\ thrown' = ParseMessage
            /\ pc' = AfterCatch
            /\ cacheKey' = hashText(getTextForAnalysis(content))
            /\ UNCHANGED <<cache, corrupt, remoteCalls>>
       ELSE /\ LET key == hashText(getTextForAnalysis(content))
                   cached == getClaudeCacheEntry(getClaudeCache(cache, corrupt).cache, key, now)
               IN /\ ~cached.hit
                  /\ cacheKey' = key
                  /\ cache' = cached.cache
                  /\ corrupt' = (corrupt /\ ~cached.wrote)
            /\ results' = RuleCategories(results, content, computeMetrics(content))
            /\ remoteCalls' = remoteCalls + 1
            /\ progress' = Append(progress, 55)
            /\ pc' = "awaiting"
            /\ thrown' = thrown
    /\ UNCHANGED <<content, apiKey, now, waited, runs, atStart, fnIn, fnOut, app>>

\* time passes while the remote call is pending
Wait ==
    /\ pc = "awaiting"
    /\ waited < MaxWait
    /\ waited' = waited + 1
    /\ now' = now + CACHE_TTL_MS \div 2 + 1
    /\ UNCHANGED <<pc, content, apiKey, results, cache, remoteCalls, cacheReads, cacheKey, progress, runs,
                   thrown, atStart, fnIn, fnOut, app, corrupt>>

\* the messages of the errors thrown after the response has arrived
NullMessage == "Cannot read properties of null"
QuotaMessage == "QuotaExceededError"

\* the remote call resolves with the parsed response raw; saved tells
\* whether localStorage.setItem of saveClaudeCacheEntry succeeds
\* (otherwise it throws QuotaExceededError)
RemoteResolves(raw, saved) ==
    /\ pc = "awaiting"
    /\ corrupt' = (corrupt /\ (raw.kind = "null" \/ ~saved))
    /\ IF raw.kind = "null"
       THEN /\ results' = Finish(Fallback(results, content, NullMessage), content)
            /\ progress' = progress \o <<90, 100>>
            /\ cache' = cache
            /\ thrown' = NullMessage
            /\ pc' = AfterCatch
       ELSE IF ~saved
       THEN /\ results' = Finish(Fallback(results, content, QuotaMessage), content)
            /\ progress' = progress \o <<90, 100>>
            /\ cache' = cache
            /\ thrown' = QuotaMessage
            /\ pc' = AfterCatch
       ELSE /\ cache' = saveClaudeCacheEntry(getClaudeCache(cache, corrupt).cache, cacheKey,
                                             [raw |-> raw, transformed |-> transformScores(raw)], now)
            /\ results' = Finish(addClaudeScores([results EXCEPT !.meta.claudeCache = "miss"],
                                                 transformScores(raw)), content)
            /\ progress' = progress \o <<80, 90, 100>>
            /\ thrown' = "none"
            /\ pc' = "done"
    /\ UNCHANGED <<content, apiKey, now, remoteCalls, cacheReads, cacheKey, waited, runs, atStart, fnIn, fnOut, app>>

\* the remote call rejects (auth, rate limit, network, malformed JSON)
RemoteRejects(message) ==
    /\ pc = "awaiting"
    /\ results' = Finish(Fallback(results, content, message), content)
    /\ progress' = progress \o <<90, 100>>
    /\ thrown' = message
    /\ pc' = AfterCatch
    /\ UNCHANGED <<content, apiKey, cache, now, remoteCalls, cacheReads, cacheKey, waited, runs, atStart, fnIn, fnOut, app, corrupt>>

Next ==
    \/ Start
    \/ ScoreRuleOnly
    \/ ScoreFromCache
    \/ CallRemote
    \/ Wait
    \/ \E raw \in ResponsesFor(content), saved \in BOOLEAN : RemoteResolves(raw, saved)
    \/ \E message \in ErrorMessages : RemoteRejects(message)

Spec == Init /\ [][Next]_vars

\* a step that takes the run on from await Promise.all: a ScoreRuleOnly,
\* ScoreFromCache or CallRemote step; one of them is enabled whenever
\* pc = "rules"
Resumed == pc = "rules" /\ pc' # "rules"

\* a step that takes the run on from await scoreSemanticCriteria: a
\* RemoteResolves or RemoteRejects step, enabled whenever pc = "awaiting"
Settled == pc = "awaiting" /\ pc' # "awaiting"

\* the scheduling of the run: the continuation of an await on settled
\* promises is run by the event loop, and the fetch of ClaudeClient.request,
\* which sets no timeout of its own, is settled by the network stack in the
\* end. This is WF_vars of the steps of the run, written out as
\* <>[]ENABLED <<A>>_vars => []<><<A>>_vars with the guard of the steps for
\* ENABLED. Nothing forces a new run, and nothing bounds the time a call
\* takes
FairSpec ==
    /\ Init
    /\ [][Next]_vars
    /\ (<>[](pc = "rules") => []<><<Resumed>>_vars)
    /\ (<>[](pc = "awaiting") => []<><<Settled>>_vars)

\* ---------------------------------------------------------------- the App
MaxPosts == 2
MaxClicks == 1

\* App.processContent from the point where await loadScoringConfig
\* resumes: the content is normalized and held and runScoring is called,
\* or the error of Parser.normalize is shown
processContent(a, rawContent, cached, pending, thrownAt) ==
    IF normalize(rawContent).threw
    THEN showError(a, <<"Failed to process page content: ">> \o normalize(rawContent).message)
    ELSE runScoring([a EXCEPT !.content = normalize(rawContent).content, !.view = "scoring"],
                    cached, pending, thrownAt)

\* the storage writes of runScoring that may throw
ThrownAt == {"none", "saveResultCacheEntry", "saveToHistory"}

\* the variables of the scoring run, which the App model keeps at rest
ScorerUnchanged ==
    UNCHANGED <<pc, content, apiKey, results, cache, now, remoteCalls, cacheReads, cacheKey, progress, waited,
                runs, thrown, atStart, fnIn, fnOut, corrupt>>

\* the page is open: App.init has added the message listener and
\* checkForContent has found nothing in sessionStorage or content that it
\* handed to processContent, which is suspended at await loadScoringConfig
AppInit ==
    /\ pc = "app"
    /\ apiKey \in BOOLEAN
    /\ app \in { [NoApp EXCEPT !.posted = <<raw>>] : raw \in RawContents }
                \cup { [NoApp EXCEPT !.posted = <<raw>>,
                                     !.handlers = <<[at |-> "loadScoringConfig", raw |-> raw]>>] :
                           raw \in RawContents }
    /\ content = PlainPage
    /\ now = StartTime
    /\ cache = <<>>
    /\ corrupt = FALSE
    /\ results = NoResults
    /\ remoteCalls = 0
    /\ cacheReads = 0
    /\ cacheKey = <<>>
    /\ progress = <<>>
    /\ waited = 0
    /\ runs = 0
    /\ thrown = "none"
    /\ atStart = [cache |-> <<>>, now |-> StartTime, ruleOnly |-> NoResults, corrupt |-> FALSE]
    /\ fnIn = <<>>
    /\ fnOut = 0

\* App.handleMessage: a message arrives, from the bookmarklet (it posts its
\* content every 500 ms for 10 s) or from a bookmarklet run on RichPage
\* (the listener accepts a message of any window); processContent is
\* called and suspends at await loadScoringConfig
HandleMessage(raw) ==
    /\ pc = "app"
    /\ app.posts < MaxPosts
    /\ raw \in {app.posted[1], RichContent}
    /\ app' = [app EXCEPT !.posts = @ + 1,
                          !.handlers = Append(@, [at |-> "loadScoringConfig", raw |-> raw])]
    /\ ScorerUnchanged

\* the fetch of loadScoringConfig settles for the i-th suspended handler
\* and processContent goes on
ConfigLoaded(i, cached, pending, thrownAt) ==
    /\ pc = "app"
    /\ i \in DOMAIN app.handlers
    /\ app.handlers[i].at = "loadScoringConfig"
    /\ pending => apiKey
    /\ app' = processContent([app EXCEPT !.handlers = RemoveAt(@, i)], app.handlers[i].raw,
                             cached, pending, thrownAt)
    /\ ScorerUnchanged

\* App.scoreAgain: a click on Score Again, a button of the results view
ScoreAgain(cached, pending, thrownAt) ==
    /\ pc = "app"
    /\ app.clicks < MaxClicks
    /\ app.view = "results"
    /\ pending => apiKey
    /\ app' = IF app.content # <<>>
              THEN runScoring([app EXCEPT !.clicks = @ + 1, !.view = "scoring"], cached, pending, thrownAt)
              ELSE [app EXCEPT !.clicks = @ + 1]
    /\ ScorerUnchanged

\* Scorer.scoreAll returns to the i-th suspended handler and runScoring
\* goes on
ScoreAllReturns(i, thrownAt) ==
    /\ pc = "app"
    /\ i \in DOMAIN app.handlers
    /\ app.handlers[i].at = "scoreAll"
    /\ app' = AfterScoreAll([app EXCEPT !.handlers = RemoveAt(@, i)],
                            Report(app.handlers[i].content, app.handlers[i].call), thrownAt)
    /\ ScorerUnchanged

AppNext ==
    \/ \E raw \in RawContents : HandleMessage(raw)
    \/ \E i \in 1..(MaxPosts + MaxClicks + 1), cached \in BOOLEAN, pending \in BOOLEAN, thrownAt \in ThrownAt :
           ConfigLoaded(i, cached, pending, thrownAt)
    \/ \E cached \in BOOLEAN, pending \in BOOLEAN, thrownAt \in ThrownAt : ScoreAgain(cached, pending, thrownAt)
    \/ \E i \in 1..(MaxPosts + MaxClicks + 1), thrownAt \in ThrownAt : ScoreAllReturns(i, thrownAt)

AppSpec == AppInit /\ [][AppNext]_vars

\* -------------------------------------------------------- the Claude cache
MaxStorageOps == 3
MaxTicks == 2

\* the cache key of the k-th text
StorageKey(k) == <<0, k>>

\* what is cached for every text here: a response without criteria
StoragePayload == [raw |-> Response({}, Null, Null, 0), transformed |-> transformScores(Response({}, Null, Null, 0))]

\* a cache of n entries as saveClaudeCacheEntry leaves it, newest first:
\* the entries 1..n, the i-th saved at stamps[i]
StorageCache(n, stamps) ==
    [i \in 1..n |-> [key |-> StorageKey(i), raw |-> StoragePayload.raw,
                     transformed |-> StoragePayload.transformed, savedAt |-> stamps[i]]]

\* the caches an earlier session may have left: empty, small, one entry
\* short of MAX_CACHE_ITEMS, full; all entries of one instant, every entry
\* 1 ms older than the one before, or the oldest ones of one instant
StorageCaches ==
    { StorageCache(n, [i \in 1..n |-> StartTime]) : n \in {0, 2, MAX_CACHE_ITEMS - 1, MAX_CACHE_ITEMS} }
    \cup { StorageCache(n, [i \in 1..n |-> StartTime - i]) : n \in {2, MAX_CACHE_ITEMS - 1, MAX_CACHE_ITEMS} }
    \cup { StorageCache(n, [i \in 1..n |-> IF i < n - 1 THEN StartTime - i ELSE 1]) :
               n \in {2, MAX_CACHE_ITEMS - 1, MAX_CACHE_ITEMS} }

\* the keys saved and read: the newest, the oldest and one in the middle of
\* a full cache, and two that no initial cache holds
StorageKeys == { StorageKey(k) : k \in {1, 2, MAX_CACHE_ITEMS, MAX_CACHE_ITEMS + 1, MAX_CACHE_ITEMS + 2} }

StorageInit ==
    /\ pc = "storage"
    /\ cache \in StorageCaches
    /\ now = StartTime
    /\ corrupt = FALSE
    /\ fnIn = [op |-> "none", hash |-> <<>>, cache |-> <<>>, now |-> StartTime, ops |-> 0, ticks |-> 0]
    /\ fnOut = [hit |-> FALSE, cache |-> <<>>, wrote |-> FALSE]
    /\ content = PlainPage
    /\ apiKey = FALSE
    /\ results = NoResults
    /\ remoteCalls = 0
    /\ cacheReads = 0
    /\ cacheKey = <<>>
    /\ progress = <<>>
    /\ waited = 0
    /\ runs = 0
    /\ thrown = "none"
    /\ atStart = [cache |-> <<>>, now |-> StartTime, ruleOnly |-> NoResults, corrupt |-> FALSE]
    /\ app = NoApp

\* Storage.saveClaudeCacheEntry(hash, payload) is called; fnIn keeps the
\* call and the cache it found
StorageSave(hash) ==
    /\ pc = "storage"
    /\ fnIn.ops < MaxStorageOps
    /\ cache' = saveClaudeCacheEntry(getClaudeCache(cache, corrupt).cache, hash, StoragePayload, now)
    /\ fnIn' = [fnIn EXCEPT !.op = "save", !.hash = hash, !.cache = cache, !.now = now, !.ops = @ + 1]
    /\ UNCHANGED <<pc, content, apiKey, results, now, remoteCalls, cacheReads, cacheKey, progress, waited, runs,
                   thrown, atStart, fnOut, app, corrupt>>

\* Storage.getClaudeCacheEntry(hash) is called; fnOut keeps what it returns
StorageRead(hash) ==
    /\ pc = "storage"
    /\ fnIn.ops < MaxStorageOps
    /\ fnOut' = getClaudeCacheEntry(getClaudeCache(cache, corrupt).cache, hash, now)
    /\ cache' = fnOut'.cache
    /\ fnIn' = [fnIn EXCEPT !.op = "read", !.hash = hash, !.cache = cache, !.now = now, !.ops = @ + 1]
    /\ UNCHANGED <<pc, content, apiKey, results, now, remoteCalls, cacheReads, cacheKey, progress, waited, runs,
                   thrown, atStart, app, corrupt>>

\* time passes between the calls: half of CACHE_TTL_MS
StorageTick ==
    /\ pc = "storage"
    /\ fnIn.ticks < MaxTicks
    /\ now' = now + CACHE_TTL_MS \div 2
    /\ fnIn' = [fnIn EXCEPT !.op = "tick", !.ticks = @ + 1]
    /\ UNCHANGED <<pc, content, apiKey, results, cache, remoteCalls, cacheReads, cacheKey, progress, waited, runs,
                   thrown, atStart, fnOut, app, corrupt>>

StorageNext ==
    \/ \E hash \in StorageKeys : StorageSave(hash)
    \/ \E hash \in StorageKeys : StorageRead(hash)
    \/ StorageTick

StorageSpec == StorageInit /\ [][StorageNext]_vars

\* ------------------------------------- calculateCompositeScore on its own
MaxCategories == 3

CompositeKeys == <<"A", "B", "C", "D", "E">>

\* category scores in tenths (null, 0, 6.0, 8.0) and weights in hundredths
CompositeScores == {Null, 0, 60, 80}
CompositeWeights == {30, 50}

\* the category objects handed to calculateCompositeScore: up to
\* MaxCategories categories in key order
CompositeInputs ==
    UNION { { [categories |-> cats, order |-> SubSeq(CompositeKeys, 1, n)] :
                cats \in [Range(SubSeq(CompositeKeys, 1, n)) ->
                            [score : CompositeScores, weight : CompositeWeights, estimated : BOOLEAN]] }
            : n \in 0..Min(MaxCategories, Len(CompositeKeys)) }

\* the variables of the scoring run, at rest
AtRest ==
    /\ content = PlainPage
    /\ apiKey = FALSE
    /\ now = StartTime
    /\ cache = <<>>
    /\ results = NoResults
    /\ remoteCalls = 0
    /\ cacheReads = 0
    /\ cacheKey = <<>>
    /\ progress = <<>>
    /\ waited = 0
    /\ runs = 0
    /\ thrown = "none"
    /\ atStart = [cache |-> <<>>, now |-> StartTime, ruleOnly |-> NoResults, corrupt |-> FALSE]
    /\ app = NoApp
    /\ corrupt = FALSE

CompositeInit ==
    /\ pc = "called"
    /\ fnIn \in CompositeInputs
    /\ fnOut = 0
    /\ AtRest

\* calculateCompositeScore(categories) returns
CompositeReturn ==
    /\ pc = "called"
    /\ fnOut' = calculateCompositeScore(fnIn.categories, fnIn.order)
    /\ pc' = "returned"
    /\ UNCHANGED <<content, apiKey, results, cache, now, remoteCalls, cacheReads, cacheKey, progress, waited, runs,
                   thrown, atStart, fnIn, app, corrupt>>

CompositeSpec == CompositeInit /\ [][CompositeReturn]_vars

\* ------------------------------------------- collectAllIssues on its own
MaxIssues == 3

\* the severities an issue may carry: the three of severityOrder and one
\* that is not in it
IssueSeverities == {"critical", "warning", "info", "minor"}

\* two categories in key order, each with up to MaxIssues issues; an issue
\* is told from the others of its category by its position
IssueLists == UNION { [1..n -> IssueSeverities] : n \in 0..MaxIssues }

IssueCategory(name, sevs) ==
    [name |-> name, issues |-> [j \in DOMAIN sevs |-> Issue(sevs[j], name, j)]]

IssueInputs ==
    { [categories |-> ("first" :> IssueCategory("First", a)) @@ ("second" :> IssueCategory("Second", b)),
       order |-> <<"first", "second">>] : a \in IssueLists, b \in IssueLists }

IssuesInit ==
    /\ pc = "called"
    /\ fnIn \in IssueInputs
    /\ fnOut = <<>>
    /\ AtRest

\* collectAllIssues(categories) returns
IssuesReturn ==
    /\ pc = "called"
    /\ fnOut' = collectAllIssues(fnIn.categories, fnIn.order)
    /\ pc' = "returned"
    /\ UNCHANGED <<content, apiKey, results, cache, now, remoteCalls, cacheReads, cacheKey, progress, waited, runs,
                   thrown, atStart, fnIn, app, corrupt>>

IssuesSpec == IssuesInit /\ [][IssuesReturn]_vars

\* ----------------------------------- validateHeadingHierarchy on its own
MaxScan == 3

\* the levels of h1 to h6
AllHeadingLevels == 1..6

HeadingInit ==
    /\ pc = "called"
    /\ fnIn \in SeqsUpTo(AllHeadingLevels, MaxScan)
    /\ fnOut = [valid |-> TRUE, issues |-> <<>>]
    /\ AtRest

\* validateHeadingHierarchy(levels) returns
HeadingReturn ==
    /\ pc = "called"
    /\ fnOut' = validateHeadingHierarchy(fnIn)
    /\ pc' = "returned"
    /\ UNCHANGED <<content, apiKey, results, cache, now, remoteCalls, cacheReads, cacheKey, progress, waited, runs,
                   thrown, atStart, fnIn, app, corrupt>>

HeadingSpec == HeadingInit /\ [][HeadingReturn]_vars

\* -------------------------------------- scoreParagraphBrevity on its own
MaxLong == 2
MaxShort == 9

\* the paragraphs of the pages: up to MaxLong paragraphs at and around the
\* limits of 150 and 200 words, then up to MaxShort paragraphs of 20 words
BrevityParagraphs ==
    { long \o [i \in 1..n |-> 20] : long \in SeqsUpTo({150, 151, 200, 201, 210}, MaxLong), n \in 0..MaxShort }

\* the sentence metrics: none (js/parser.js computes none), no sentence, or
\* ten sentences of which none, 20% or 30% are long
SentenceMetrics ==
    { NoSentences, [NoSentences EXCEPT !.present = TRUE] }
    \cup { [present |-> TRUE, total |-> 10, longCount |-> l, complexCount |-> c, longSamples |-> ls] :
               l \in {0, 2, 3}, c \in {0, 1}, ls \in {<<>>, <<0>>} }

\* the metrics of such a page
BrevityInput(ps, sentences) ==
    [paragraphs |-> ps,
     metrics |-> [computeMetrics([PlainPage EXCEPT !.paragraphs = ps]) EXCEPT !.paragraphs.sentences = sentences]]

BrevityInit ==
    /\ pc = "called"
    /\ fnIn \in { BrevityInput(ps, sentences) : ps \in BrevityParagraphs, sentences \in SentenceMetrics }
    /\ fnOut = Criterion(0, <<>>)
    /\ AtRest

\* scoreParagraphBrevity(metrics) returns
BrevityReturn ==
    /\ pc = "called"
    /\ fnOut' = scoreParagraphBrevity(fnIn.metrics)
    /\ pc' = "returned"
    /\ UNCHANGED <<content, apiKey, results, cache, now, remoteCalls, cacheReads, cacheKey, progress, waited, runs,
                   thrown, atStart, fnIn, app, corrupt>>

BrevitySpec == BrevityInit /\ [][BrevityReturn]_vars

\* --------------------------------------------------- App.runBatchScoring
MaxBatch == 3

\* the length of a word of a page's text
TokenLength(w) == IF w = "to" THEN 2 ELSE IF w = "the" THEN 3 ELSE WordLength(w)

\* fullText.toLowerCase().split(/[^a-z0-9]+/).filter(token => token.length > 3)
\* as a Set, on a text given as its words in lower case
Tokens(fullText) == { w \in Range(fullText) : TokenLength(w) > 3 }

\* the texts of the pages behind the URLs: seven words longer than three
\* letters, the same with short and repeated words added, six and five of
\* the seven, no word, and short words only
BatchWords == <<"delete", "remove", "deactivate", "disable", "uninstall", "warning", "admin">>

BatchTexts == { BatchWords, <<"the">> \o BatchWords \o <<"to", "delete">>, SubSeq(BatchWords, 1, 6),
                SubSeq(BatchWords, 1, 5), <<>>, <<"the", "to">> }

\* what happens to one URL of the batch: fetch, extraction, normalize or
\* scoreAll fails ("failed"), the page is scored ("scored"), or it is
\* scored and Storage.saveToHistory then throws ("historyFull")
BatchOutcomes == { [kind |-> "failed", text |-> <<>>] }
                 \cup { [kind |-> k, text |-> t] : k \in {"scored", "historyFull"}, t \in BatchTexts }

\* the similarity closure of findDuplicatePages on two entries of
\* tokenSets, each <<>> for undefined or <<set>>; the score as the pair
\* <<intersection, union>>, <<0, 0>> standing for 0
similarity(a, b) ==
    IF a = <<>> \/ b = <<>> THEN <<0, 0>>
    ELSE <<Cardinality(a[1] \cap b[1]), Cardinality(a[1] \cup b[1])>>

\* tokenSets[i], undefined beyond the end of the array
At(array, i) == IF i \in DOMAIN array THEN <<array[i]>> ELSE <<>>

\* the pairs i < j of the two loops of findDuplicatePages, in their order
LoopPairs(n) == Flatten([i \in 1..n |-> [k \in 1..(n - i) |-> <<i, i + k>>]])

\* App.findDuplicatePages: score >= 0.85 with score = intersection / union
\* and 0 for an empty union; similarity: Math.round(score * 100)
findDuplicatePages(resultsList, tokenSets) ==
    LET pairs == SelectSeq(LoopPairs(Len(resultsList)),
                           LAMBDA p : /\ ~resultsList[p[1]].error
                                      /\ ~resultsList[p[2]].error
                                      /\ similarity(At(tokenSets, p[1]), At(tokenSets, p[2]))[2] # 0
                                      /\ 100 * similarity(At(tokenSets, p[1]), At(tokenSets, p[2]))[1]
                                             >= 85 * similarity(At(tokenSets, p[1]), At(tokenSets, p[2]))[2])
    IN [k \in DOMAIN pairs |->
           [a |-> resultsList[pairs[k][1]].url,
            b |-> resultsList[pairs[k][2]].url,
            similarity |-> RoundDiv(100 * similarity(At(tokenSets, pairs[k][1]), At(tokenSets, pairs[k][2]))[1],
                                    similarity(At(tokenSets, pairs[k][1]), At(tokenSets, pairs[k][2]))[2])]]

\* the page shows nothing or the report of an earlier run; the user has
\* entered the URLs of fnIn.urls, the i-th line being the URL i
BatchInit ==
    /\ pc = "batch"
    /\ fnIn \in { [urls |-> u, i |-> 0, started |-> FALSE, batchResults |-> <<>>, tokenSets |-> <<>>] :
                     u \in SeqsUpTo(BatchOutcomes, MaxBatch) \ {<<>>} }
    /\ fnOut = <<>>
    /\ app \in { NoApp, [NoApp EXCEPT !.content = <<PlainPage>>, !.results = <<Report(PlainPage, 1)>>,
                                       !.view = "results"] }
    /\ content = PlainPage
    /\ apiKey = FALSE
    /\ now = StartTime
    /\ cache = <<>>
    /\ results = NoResults
    /\ remoteCalls = 0
    /\ cacheReads = 0
    /\ cacheKey = <<>>
    /\ progress = <<>>
    /\ waited = 0
    /\ runs = 0
    /\ thrown = "none"
    /\ atStart = [cache |-> <<>>, now |-> StartTime, ruleOnly |-> NoResults, corrupt |-> FALSE]
    /\ corrupt = FALSE

\* the variables of the scoring run, which the batch model keeps at rest
BatchUnchanged ==
    UNCHANGED <<pc, content, apiKey, results, cache, now, remoteCalls, cacheReads, cacheKey, progress, waited,
                runs, thrown, atStart, corrupt>>

\* the end of runBatchScoring, after the loop
BatchEnd(a, batchResults) ==
    LET first == SelectSeq(batchResults, LAMBDA entry : ~entry.error)
        held == IF first # <<>> THEN [a EXCEPT !.results = <<first[1]>>] ELSE a
        shown == [held EXCEPT !.view = "results", !.isScoring = FALSE]
    IN IF shown.results # <<>> THEN shown
       ELSE showError(shown, <<"Batch scoring failed for all URLs.">>)

\* App.handleBatchScore and App.runBatchScoring up to the first await fetch
RunBatchScoring ==
    /\ pc = "batch"
    /\ ~fnIn.started
    /\ fnIn' = [fnIn EXCEPT !.started = TRUE]
    /\ app' = [app EXCEPT !.view = "scoring", !.isScoring = TRUE, !.results = <<>>]
    /\ UNCHANGED fnOut
    /\ BatchUnchanged

\* one turn of the loop of runBatchScoring from the point where the fetch
\* settles: the result and the token set are pushed, or the error; after
\* the last URL the function goes on to its end
BatchUrlSettles ==
    /\ pc = "batch"
    /\ fnIn.started
    /\ fnIn.i < Len(fnIn.urls)
    /\ LET url == fnIn.i + 1
           outcome == fnIn.urls[url]
           scored == <<[url |-> url, error |-> FALSE]>>
           failed == <<[url |-> url, error |-> TRUE]>>
           batchResults == fnIn.batchResults
                           \o (IF outcome.kind = "failed" THEN failed
                               ELSE IF outcome.kind = "scored" THEN scored
                               ELSE scored \o failed)
           tokenSets == IF outcome.kind = "failed" THEN fnIn.tokenSets
                        ELSE Append(fnIn.tokenSets, Tokens(outcome.text))
       IN /\ fnIn' = [fnIn EXCEPT !.i = url, !.batchResults = batchResults, !.tokenSets = tokenSets]
          /\ IF url = Len(fnIn.urls)
             THEN /\ app' = BatchEnd(app, batchResults)
                  /\ fnOut' = findDuplicatePages(batchResults, tokenSets)
             ELSE UNCHANGED <<app, fnOut>>
    /\ BatchUnchanged

\* App.goToLanding: a click on the back button of the results view
GoToLanding ==
    /\ pc = "batch"
    /\ app.view = "results"
    /\ app' = [app EXCEPT !.view = "landing", !.content = <<>>, !.results = <<>>]
    /\ UNCHANGED <<fnIn, fnOut>>
    /\ BatchUnchanged

BatchNext == RunBatchScoring \/ BatchUrlSettles \/ GoToLanding

BatchSpec == BatchInit /\ [][BatchNext]_vars

\* ------------------------------- runs of scoreAll on one content, with a key
MaxOverlap == 3

\* the page is open with a key stored and nothing in the Claude cache;
\* fnIn counts the calls of scoreAll, those suspended at
\* await scoreSemanticCriteria, and the clock steps; fnOut counts the cache
\* hits and the remote calls that failed, and tells whether a call of
\* scoreAll was made while another was suspended
OverlapInit ==
    /\ pc = "overlap"
    /\ apiKey = TRUE
    /\ content = PlainPage
    /\ cache = <<>>
    /\ now = StartTime
    /\ remoteCalls = 0
    /\ fnIn = [started |-> 0, pending |-> 0, ticks |-> 0]
    /\ fnOut = [hits |-> 0, failed |-> 0, overlapped |-> FALSE]
    /\ results = NoResults
    /\ cacheReads = 0
    /\ cacheKey = StorageKey(1)
    /\ progress = <<>>
    /\ waited = 0
    /\ runs = 0
    /\ thrown = "none"
    /\ atStart = [cache |-> <<>>, now |-> StartTime, ruleOnly |-> NoResults, corrupt |-> FALSE]
    /\ app = NoApp
    /\ corrupt = FALSE

OverlapUnchanged ==
    UNCHANGED <<pc, content, apiKey, results, cacheKey, progress, waited, runs, thrown, atStart, app, corrupt>>

\* scoreAll is called for the content (a message of the bookmarklet, Score
\* Again): the cache is read; on a hit the run finishes within the task, on
\* a miss the remote call is issued and the run suspends
OverlapStart ==
    /\ pc = "overlap"
    /\ fnIn.started < MaxOverlap
    /\ LET cached == getClaudeCacheEntry(getClaudeCache(cache, corrupt).cache, cacheKey, now)
       IN /\ cache' = cached.cache
          /\ cacheReads' = cacheReads + 1
          /\ IF cached.hit
             THEN /\ fnIn' = [fnIn EXCEPT !.started = @ + 1]
                  /\ fnOut' = [fnOut EXCEPT !.hits = @ + 1, !.overlapped = @ \/ fnIn.pending > 0]
                  /\ UNCHANGED remoteCalls
             ELSE /\ fnIn' = [fnIn EXCEPT !.started = @ + 1, !.pending = @ + 1]
                  /\ fnOut' = [fnOut EXCEPT !.overlapped = @ \/ fnIn.pending > 0]
                  /\ remoteCalls' = remoteCalls + 1
    /\ UNCHANGED now
    /\ OverlapUnchanged

\* the remote call of a suspended run settles: with a response that is
\* transformed and saved, or with an error (the call rejects, the response
\* is null, the save throws), in which case nothing is saved
OverlapSettles(ok) ==
    /\ pc = "overlap"
    /\ fnIn.pending > 0
    /\ fnIn' = [fnIn EXCEPT !.pending = @ - 1]
    /\ IF ok
       THEN /\ cache' = saveClaudeCacheEntry(getClaudeCache(cache, corrupt).cache, cacheKey, StoragePayload, now)
            /\ UNCHANGED fnOut
       ELSE /\ fnOut' = [fnOut EXCEPT !.failed = @ + 1]
            /\ UNCHANGED cache
    /\ UNCHANGED <<now, remoteCalls, cacheReads>>
    /\ OverlapUnchanged

\* time passes: a little more than half of CACHE_TTL_MS
OverlapTick ==
    /\ pc = "overlap"
    /\ fnIn.ticks < MaxTicks
    /\ now' = now + CACHE_TTL_MS \div 2 + 1
    /\ fnIn' = [fnIn EXCEPT !.ticks = @ + 1]
    /\ UNCHANGED <<cache, remoteCalls, cacheReads, fnOut>>
    /\ OverlapUnchanged

OverlapNext == OverlapStart \/ (\E ok \in BOOLEAN : OverlapSettles(ok)) \/ OverlapTick

OverlapSpec == OverlapInit /\ [][OverlapNext]_vars

\* ------------------------------------------------------------ properties
\* the sum of the values of a function with a finite domain
RECURSIVE SumOf(_)
SumOf(f) ==
    IF DOMAIN f = {} THEN 0
    ELSE LET k == CHOOSE x \in DOMAIN f : TRUE
         IN f[k] + SumOf([j \in DOMAIN f \ {k} |-> f[j]])

\* the categories that count for the composite
Qualifying(cats) == { k \in DOMAIN cats : cats[k].score # Null /\ ~cats[k].estimated }

\* x is the mean of the scores of the categories Q of cats, weighted by
\* their own weights, rounded to one decimal (x in tenths); 0 for no
\* category, NaN when a score is no number
IsWeightedMeanOf(x, cats, Q) ==
    IF Q = {} THEN x = 0
    ELSE IF \E k \in Q : ~IsNum(cats[k].score) THEN x = NaN
    ELSE LET S == SumOf([k \in Q |-> cats[k].score * cats[k].weight])
             W == SumOf([k \in Q |-> cats[k].weight])
         IN IsNum(x) /\ 2 * x * W <= 2 * S + W /\ 2 * S + W < 2 * x * W + 2 * W

\* C1: calculateCompositeScore returns the mean of the scores of the
\* categories that have a score and are not estimated, weighted by their
\* own weights and divided by the weights included, rounded to one decimal;
\* 0 when there is none; whatever score an estimated category holds, the
\* composite is the same
C1_CompositeIsWeightedMean ==
    pc = "returned" =>
        /\ IsWeightedMeanOf(fnOut, fnIn.categories, Qualifying(fnIn.categories))
        /\ \A k \in DOMAIN fnIn.categories :
              fnIn.categories[k].estimated =>
                  \A x \in CompositeScores :
                      calculateCompositeScore([fnIn.categories EXCEPT ![k].score = x], fnIn.order) = fnOut

\* A: 8 at weight 0.5, B: 6 at weight 0.5, C estimated gives 7.0
C1_Witness ==
    /\ pc = "returned"
    /\ fnIn.order = <<"A", "B", "C">>
    /\ fnIn.categories["A"] = [score |-> 80, weight |-> 50, estimated |-> FALSE]
    /\ fnIn.categories["B"] = [score |-> 60, weight |-> 50, estimated |-> FALSE]
    /\ fnIn.categories["C"] = [score |-> 80, weight |-> 50, estimated |-> TRUE]
    /\ fnOut = 70

SemanticKeys == {"outcomes-reversibility", "self-contained", "permissions-plans"}

\* C2: when a key is supplied and the semantic path throws, the report
\* returned has the three semantic categories estimated, meta.claudeError
\* is the message thrown, and the composite is the weighted mean of the
\* categories that are not estimated
C2_FallbackOnError ==
    (pc = "done" /\ apiKey /\ thrown # "none") =>
        /\ \A k \in SemanticKeys : k \in DOMAIN results.categories /\ results.categories[k].estimated
        /\ results.meta.claudeError = thrown
        /\ IsWeightedMeanOf(results.compositeScore, results.categories,
                            { k \in DOMAIN results.categories : ~results.categories[k].estimated })

\* a run that returned after a rate-limit error
C2_Witness ==
    /\ pc = "done"
    /\ apiKey
    /\ thrown = "Rate limit exceeded. Please wait and try again."
    /\ results.meta.claudeError = thrown
    /\ results.compositeScore > 0

FreshEntries(c, hash, t) ==
    { i \in DOMAIN c : c[i].key = hash /\ t - c[i].savedAt <= CACHE_TTL_MS }

\* the category a semantic criterion goes to
HomeOf(id) ==
    IF id \in {"OR-01", "OR-02", "OR-03", "OR-04"} THEN "outcomes-reversibility"
    ELSE IF id \in {"GAP-03", "GAP-04"} THEN "self-contained"
    ELSE IF id \in {"PP-01", "PP-02", "PP-03", "PP-04"} THEN "permissions-plans"
    ELSE "content-structure"

\* the report r holds the criteria of the transformed result t and no
\* estimate
UsesTransformed(r, t) ==
    /\ \A k \in SemanticKeys : k \in DOMAIN r.categories /\ ~r.categories[k].estimated
    /\ \A id \in DOMAIN t.scores \ {"AV-02"} :
          /\ id \in DOMAIN r.categories[HomeOf(id)].criteria
          /\ r.categories[HomeOf(id)].criteria[id] = t.scores[id]

\* C4: with a key, a run that finds an unexpired entry under the hash of
\* the analysis text builds its report from that entry's transformed
\* result and makes no remote call; a run that finds none makes exactly one
\* remote call and, when the semantic path succeeds, the cache holds
\* {raw, transformed} under that hash, written in this run, by the time the
\* report is returned
C4_CacheThenRemote ==
    (pc = "done" /\ apiKey) =>
        IF FreshEntries(atStart.cache, hashText(getTextForAnalysis(content)), atStart.now) # {}
        THEN /\ remoteCalls = 0
             /\ \A i \in FreshEntries(atStart.cache, hashText(getTextForAnalysis(content)), atStart.now) :
                   UsesTransformed(results, atStart.cache[i].transformed)
        ELSE /\ remoteCalls = 1
             /\ thrown = "none" =>
                   \E i \in DOMAIN cache :
                       /\ cache[i].key = hashText(getTextForAnalysis(content))
                       /\ cache[i].savedAt = now
                       /\ cache[i].transformed = transformScores(cache[i].raw)
                       /\ UsesTransformed(results, cache[i].transformed)

\* a second run that hits the entry the first run wrote after its remote
\* call
C4_Witness ==
    /\ pc = "done"
    /\ apiKey
    /\ runs = 2
    /\ remoteCalls = 0
    /\ results.meta.claudeCache = "hit"
    /\ \E i \in DOMAIN cache : cache[i].key = cacheKey /\ cache[i].savedAt > StartTime

\* C5: without a key no run makes a remote call or reads or writes the
\* Claude cache, and the report returned has meta.mode 'rule-only' and the
\* three semantic categories estimated
C5_NoKeyNoRemote ==
    ~apiKey =>
        /\ remoteCalls = 0
        /\ cacheReads = 0
        /\ cache = atStart.cache
        /\ pc = "done" =>
              /\ results.meta.mode = "rule-only"
              /\ \A k \in SemanticKeys : k \in DOMAIN results.categories /\ results.categories[k].estimated

\* a run without a key that returned while the cache held a fresh entry for
\* its text
C5_Witness ==
    /\ pc = "done"
    /\ ~apiKey
    /\ cache # <<>>
    /\ results.meta.mode = "rule-only"

\* a score is a number from 0 to 10 (in tenths)
InRange(x) == IsNum(x) /\ 0 <= x /\ x <= 100

\* C6: in every report returned, every criterion score, every category
\* score and the composite score is a number from 0 to 10
C6_ScoresInRange ==
    pc = "done" =>
        /\ InRange(results.compositeScore)
        /\ \A k \in DOMAIN results.categories :
              /\ InRange(results.categories[k].score)
              /\ \A c \in DOMAIN results.categories[k].criteria :
                    InRange(results.categories[k].criteria[c].score)

\* the rank of a severity as the property states it: critical, warning,
\* info, others last
RankOf(sev) == IF sev = "critical" THEN 0 ELSE IF sev = "warning" THEN 1 ELSE IF sev = "info" THEN 2 ELSE 3

\* the elements of s whose severity has rank r, in the order of s
OfRank(s, r) == SelectSeq(s, LAMBDA x : RankOf(x.severity) = r)

\* C7: allIssues is ordered by severity (critical, warning, info, any other
\* severity last), and the issues of one severity keep the order they have
\* in the categories: category by category, each in insertion order
C7_SortedAndStable ==
    pc = "returned" =>
        /\ \A i, j \in DOMAIN fnOut : i < j => RankOf(fnOut[i].severity) <= RankOf(fnOut[j].severity)
        /\ \A r \in 0..3 : OfRank(fnOut, r) = OfRank(TaggedIssues(fnIn.categories, fnIn.order), r)

\* issues of another severity and of equal severity in both categories,
\* given out of order
C7_Witness ==
    /\ pc = "returned"
    /\ Len(fnOut) = 5
    /\ Len(fnIn.categories["first"].issues) = 3
    /\ fnIn.categories["first"].issues[1].severity = "minor"
    /\ fnIn.categories["first"].issues[2].severity = "info"
    /\ fnIn.categories["first"].issues[3].severity = "critical"
    /\ fnIn.categories["second"].issues[1].severity = "critical"
    /\ fnIn.categories["second"].issues[2].severity = "minor"
    /\ fnOut[1].categoryKey = "first"
    /\ fnOut[2].categoryKey = "second"
    /\ fnOut[5].severity = "minor"

\* C8: topIssues is the first five issues of allIssues, or all of them
\* when there are fewer, in the same order
C8_TopIsPrefix ==
    pc = "done" =>
        /\ Len(results.topIssues) = (IF Len(results.allIssues) < 5 THEN Len(results.allIssues) ELSE 5)
        /\ \A i \in DOMAIN results.topIssues : results.topIssues[i] = results.allIssues[i]

\* a report with more than five issues
C8_Witness ==
    /\ pc = "done"
    /\ Len(results.allIssues) > 5
    /\ Len(results.topIssues) = 5

\* C9: the status of a report is green when its composite score is at
\* least 7, yellow when it is at least 4 and below 7, red otherwise
C9_StatusOfComposite ==
    pc = "done" =>
        results.status = (IF IsNum(results.compositeScore) /\ results.compositeScore >= 70 THEN "green"
                          ELSE IF IsNum(results.compositeScore) /\ results.compositeScore >= 40 THEN "yellow"
                          ELSE "red")

\* a report whose composite score is exactly 7.0
C9_Witness ==
    /\ pc = "done"
    /\ results.compositeScore = 70
    /\ results.status = "green"

\* the weights as the property states them, in hundredths
TableWeight(k) ==
    IF k = "content-structure" THEN 30
    ELSE IF k = "outcomes-reversibility" THEN 25
    ELSE IF k = "terminology" THEN 15
    ELSE IF k = "permissions-plans" THEN 15
    ELSE IF k = "text-over-visuals" THEN 10
    ELSE IF k = "self-contained" THEN 5
    ELSE 0

\* C10: CATEGORY_WEIGHTS holds the six weights of the table, they sum to
\* 1.0, and every category of a report carries the weight of its key
C10_TableWeights ==
    /\ Cardinality(DOMAIN CATEGORY_WEIGHTS) = 6
    /\ \A k \in DOMAIN CATEGORY_WEIGHTS : CATEGORY_WEIGHTS[k] = TableWeight(k)
    /\ SumOf(CATEGORY_WEIGHTS) = 100
    /\ \A k \in DOMAIN results.categories : results.categories[k].weight = TableWeight(k)

\* a report with all six categories
C10_Witness ==
    /\ pc = "done"
    /\ DOMAIN results.categories = CategoryKeys

\* what claim C11 calls missing: undefined, null or empty
Missing(kind) == kind \in {"undefined", "null", "empty"}

\* the contents the claim says are rejected
Rejected(raw) ==
    \/ raw.kind \in {"null", "undefined"}
    \/ Missing(raw.url)
    \/ Missing(raw.structure)
    \/ ~TypeofString(raw.fullText)

\* C11: Parser.validate rejects exactly the content that is null or lacks
\* meta.url or structure or whose text.fullText is no string; when
\* processContent goes on with such content, the error of normalize is shown,
\* no call of scoreAll is made, and the content and the results the App
\* holds stay as they were; with any other content the content is held
C11_InvalidContentRejected ==
    [][\A i \in 1..(MaxPosts + MaxClicks + 1), cached \in BOOLEAN, pending \in BOOLEAN, thrownAt \in ThrownAt :
          ConfigLoaded(i, cached, pending, thrownAt) =>
              LET raw == app.handlers[i].raw
              IN /\ validate(raw).isValid = ~Rejected(raw)
                 /\ normalize(raw).threw = Rejected(raw)
                 /\ Rejected(raw) =>
                        /\ app'.content = app.content
                        /\ app'.results = app.results
                        /\ app'.calls = app.calls
                        /\ app'.isScoring = app.isScoring
                        /\ Len(app'.handlers) = Len(app.handlers) - 1
                        /\ Len(app'.error) >= 3
                        /\ app'.error[1] = "Failed to process page content: "
                        /\ app'.error[2] = "Invalid content: "
                 /\ ~Rejected(raw) => app'.content = <<raw.page>>]_vars

\* content was rejected while the App held a page and its report
C11_Witness ==
    /\ pc = "app"
    /\ app.content = <<RichPage>>
    /\ app.results = <<Report(RichPage, 1)>>
    /\ app.view = "results"
    /\ app.error = <<"Failed to process page content: ", "Invalid content: ", "Missing structure data">>

\* the handlers suspended inside Scorer.scoreAll
Running == { i \in DOMAIN app.handlers : app.handlers[i].at = "scoreAll" }

\* C12: scoring runs never overlap: at no time are two calls of scoreAll
\* under way
C12_RunsNeverOverlap == pc = "app" => Cardinality(Running) <= 1

\* the keys of a cache
KeysOf(c) == { c[i].key : i \in DOMAIN c }

\* C13: after every saveClaudeCacheEntry the cache holds at most
\* MAX_CACHE_ITEMS entries, and an entry the call dropped (one the cache held
\* before, or the one just set) is no newer than any entry still present
C13_BoundedOldestFirst ==
    pc = "storage" =>
        /\ Len(cache) <= MAX_CACHE_ITEMS
        /\ fnIn.op = "save" =>
               /\ \A i \in DOMAIN fnIn.cache :
                      (fnIn.cache[i].key # fnIn.hash /\ fnIn.cache[i].key \notin KeysOf(cache))
                          => \A j \in DOMAIN cache : fnIn.cache[i].savedAt <= cache[j].savedAt
               /\ fnIn.hash \notin KeysOf(cache) => \A j \in DOMAIN cache : fnIn.now <= cache[j].savedAt

\* a save into a full cache dropped the oldest entry and kept the new one
C13_Witness ==
    /\ pc = "storage"
    /\ fnIn.op = "save"
    /\ Len(fnIn.cache) = MAX_CACHE_ITEMS
    /\ fnIn.hash = StorageKey(MAX_CACHE_ITEMS + 1)
    /\ Len(cache) = MAX_CACHE_ITEMS
    /\ cache[1].key = fnIn.hash
    /\ fnIn.cache[MAX_CACHE_ITEMS].key \notin KeysOf(cache)
    /\ fnIn.cache[MAX_CACHE_ITEMS].savedAt < cache[MAX_CACHE_ITEMS].savedAt

\* C14: getClaudeCacheEntry returns an entry only if it is at most
\* CACHE_TTL_MS old; an older one is deleted from the store by the read,
\* which is a miss; a younger one is returned as stored and the store is
\* left as it was
C14_ExpiredNeverReturned ==
    (pc = "storage" /\ fnIn.op = "read") =>
        /\ fnOut.hit => fnIn.now - fnOut.entry.savedAt <= CACHE_TTL_MS
        /\ \A i \in DOMAIN fnIn.cache :
               fnIn.cache[i].key = fnIn.hash =>
                   IF fnIn.now - fnIn.cache[i].savedAt > CACHE_TTL_MS
                   THEN /\ ~fnOut.hit
                        /\ cache = RemoveAt(fnIn.cache, i)
                   ELSE /\ fnOut.hit
                        /\ fnOut.entry = fnIn.cache[i]
                        /\ cache = fnIn.cache
        /\ fnIn.hash \notin KeysOf(fnIn.cache) => (~fnOut.hit /\ cache = fnIn.cache)

\* an entry older than CACHE_TTL_MS was read: a miss, and the entry is gone
C14_Witness ==
    /\ pc = "storage"
    /\ fnIn.op = "read"
    /\ fnIn.hash \in KeysOf(fnIn.cache)
    /\ ~fnOut.hit
    /\ fnIn.hash \notin KeysOf(cache)
    /\ Len(cache) = Len(fnIn.cache) - 1

Answered(cats) ==
    { k \in Qualifying(cats) : k \in SemanticKeys => DOMAIN cats[k].criteria # {} }

\* C17: on the successful semantic path, a semantic category of whose
\* criteria the response holds none is left out of the weighted mean: the
\* composite is the mean over the other categories that count
C17_MissingCategoryLeftOut ==
    (pc = "done" /\ apiKey /\ thrown = "none") =>
        IsWeightedMeanOf(results.compositeScore, results.categories, Answered(results.categories))

\* the positions (from 0, as the code counts) of the headings whose level
\* is more than one above the level of the heading before
Skips(levels) == { i \in 1..(Len(levels) - 1) : levels[i + 1] > levels[i] + 1 }

\* C18: validateHeadingHierarchy reports, in document order, one issue of
\* type 'skipped' for every heading whose level is more than one above the
\* level of the heading before it, naming the two levels, and no other
\* issue; valid is true exactly when there is no issue; for [1,2,4] the
\* result is invalid with the one issue from h2 to h4
C18_SkippedLevelsOnly ==
    pc = "returned" =>
        /\ Len(fnOut.issues) = Cardinality(Skips(fnIn))
        /\ \A n \in DOMAIN fnOut.issues :
               /\ fnOut.issues[n].type = "skipped"
               /\ fnOut.issues[n].index \in Skips(fnIn)
               /\ fnOut.issues[n].from = fnIn[fnOut.issues[n].index]
               /\ fnOut.issues[n].to = fnIn[fnOut.issues[n].index + 1]
        /\ \A m, n \in DOMAIN fnOut.issues : m < n => fnOut.issues[m].index < fnOut.issues[n].index
        /\ fnOut.valid = (fnOut.issues = <<>>)
        /\ fnIn = <<1, 2, 4>> =>
               fnOut = [valid |-> FALSE, issues |-> <<[type |-> "skipped", from |-> 2, to |-> 4, index |-> 2]>>]

\* the levels [1,2,4] were validated
C18_Witness ==
    /\ pc = "returned"
    /\ fnIn = <<1, 2, 4>>
    /\ ~fnOut.valid
    /\ Len(fnOut.issues) = 1
    /\ fnOut.issues[1].from = 2
    /\ fnOut.issues[1].to = 4

\* r is 10 * good / count rounded to the nearest integer, halves up
IsRoundedTenth(r, good, count) ==
    /\ 2 * count * r <= 20 * good + count
    /\ 20 * good + count < 2 * count * (r + 1)

\* the issues of a criterion about single paragraphs being too long
ParagraphIssues(issues) == SelectSeq(issues, LAMBDA x : x.message = "Paragraph has too many words")

\* C19: for a page with paragraphs, the score of CS-01 is 10 times the
\* fraction of paragraphs of at most 150 words, rounded, less 1 when more
\* than 20% of the sentences are long, kept within 0..10; every paragraph
\* of more than 150 words has exactly one issue, critical above 200 words
\* and warning otherwise, and no other paragraph has one; one paragraph of
\* 210 words and nine of 20 give longCount 1 and the one critical issue
C19_ParagraphBrevity ==
    (pc = "returned" /\ Len(fnIn.paragraphs) > 0) =>
        LET ps == fnIn.paragraphs
            sentences == fnIn.metrics.paragraphs.sentences
            good == Cardinality({ i \in DOMAIN ps : ps[i] <= 150 })
            penalty == IF sentences.present /\ sentences.total > 0 /\ 5 * sentences.longCount > sentences.total
                       THEN 1 ELSE 0
            per == ParagraphIssues(fnOut.issues)
        IN /\ \E r \in 0..10 :
                  /\ IsRoundedTenth(r, good, Len(ps))
                  /\ fnOut.score = 10 * (IF r - penalty < 0 THEN 0 ELSE r - penalty)
           /\ Len(per) = Len(ps) - good
           /\ \A i \in DOMAIN ps :
                  Cardinality({ n \in DOMAIN per : per[n].at = i }) = (IF ps[i] > 150 THEN 1 ELSE 0)
           /\ \A n \in DOMAIN per :
                  per[n].severity = (IF ps[per[n].at] > 200 THEN "critical" ELSE "warning")
           /\ (ps = <<210>> \o [i \in 1..9 |-> 20] /\ sentences = NoSentences) =>
                  /\ fnIn.metrics.paragraphs.longCount = 1
                  /\ fnOut.issues = <<Issue("critical", "Paragraph has too many words", 1)>>
                  /\ fnOut.score = 90

\* the page with one paragraph of 210 words and nine of 20 was scored
C19_Witness ==
    /\ pc = "returned"
    /\ fnIn.paragraphs = <<210>> \o [i \in 1..9 |-> 20]
    /\ fnIn.metrics.paragraphs.sentences = NoSentences
    /\ Len(fnOut.issues) = 1
    /\ fnOut.issues[1].severity = "critical"

\* x is the arithmetic mean, rounded to one decimal (tenths, halves up), of
\* those scores of the criteria that are numbers: 0 when there is none,
\* NaN when one of them is NaN
IsUnweightedMeanOf(x, criteria) ==
    LET numbers == { id \in DOMAIN criteria : TypeofNumber(criteria[id].score) }
        n == Cardinality(numbers)
        sum == SumOf([id \in numbers |-> criteria[id].score])
    IN IF numbers = {} THEN x = 0
       ELSE IF \E id \in numbers : criteria[id].score = NaN THEN x = NaN
       ELSE IsNum(x) /\ 2 * x * n <= 2 * sum + n /\ 2 * sum + n < 2 * x * n + 2 * n

\* the named criteria of the semantic categories
NamedCriteria(k) ==
    IF k = "outcomes-reversibility" THEN {"OR-01", "OR-02", "OR-03", "OR-04"}
    ELSE IF k = "self-contained" THEN {"GAP-03", "GAP-04"}
    ELSE {"PP-01", "PP-02", "PP-03", "PP-04"}

\* the criteria of the rule evaluator of Content Structure
RuleStructureIds == {"CS-01", "CS-02", "CS-04", "CS-07"}

\* C20: on the successful semantic path each semantic category holds those
\* of its named criteria that the response contains and has their
\* unweighted mean, to one decimal, as its score; Content Structure holds
\* its rule-based criteria and CS-03, CS-05 when the response contains them,
\* and its score is the unweighted mean of all of them (on a page with
\* sections, that mean averaged with the section rollup)
C20_SemanticCategoryMeans ==
    (pc = "done" /\ apiKey /\ thrown = "none") =>
        \A i \in DOMAIN cache :
            cache[i].key = cacheKey =>
                LET scores == cache[i].transformed.scores
                    cs == results.categories["content-structure"]
                IN /\ \A k \in SemanticKeys :
                          /\ DOMAIN results.categories[k].criteria = NamedCriteria(k) \cap DOMAIN scores
                          /\ \A id \in DOMAIN results.categories[k].criteria :
                                 results.categories[k].criteria[id] = scores[id]
                          /\ IsUnweightedMeanOf(results.categories[k].score, results.categories[k].criteria)
                   /\ DOMAIN cs.criteria = RuleStructureIds \cup ({"CS-03", "CS-05"} \cap DOMAIN scores)
                   /\ \A id \in {"CS-03", "CS-05"} \cap DOMAIN scores : cs.criteria[id] = scores[id]
                   /\ IF results.sectionRollup = Null
                      THEN IsUnweightedMeanOf(cs.score, cs.criteria)
                      ELSE \E mean \in -100..200 :
                               /\ IsUnweightedMeanOf(mean, cs.criteria)
                               /\ cs.score = RoundDiv(mean + results.sectionRollup, 2)

\* a report built from a response that holds three of the four OR criteria
\* and neither CS-03 nor CS-05, with scores 3.5 and 7.0
C20_Witness ==
    /\ pc = "done"
    /\ apiKey
    /\ thrown = "none"
    /\ remoteCalls = 1
    /\ DOMAIN results.categories["outcomes-reversibility"].criteria = {"OR-01", "OR-02", "OR-03"}
    /\ results.categories["outcomes-reversibility"].criteria["OR-01"].score = 35
    /\ results.categories["outcomes-reversibility"].criteria["OR-02"].score = 70
    /\ results.categories["outcomes-reversibility"].score = 47
    /\ DOMAIN results.categories["content-structure"].criteria = RuleStructureIds

\* the transformed response the finished run merged: the one the cache
\* holds under the run's key
MergedScores == { cache[i].transformed.scores : i \in { j \in DOMAIN cache : cache[j].key = cacheKey } }

\* C21: when the response holds AV-02, the AV-02 criterion of the
\* terminology category has the average of the rule evaluator's score and
\* the response's score (to the whole point the code rounds to), and the
\* score of the terminology category is the mean of the scores its criteria
\* then have (weighted as TerminologyRules.scoreAll weights them, or
\* unweighted as for content-structure)
C21_MergedAV02InTerminology ==
    (pc = "done" /\ apiKey /\ thrown = "none") =>
        \A scores \in MergedScores :
            ("AV-02" \in DOMAIN scores /\ IsNum(scores["AV-02"].score)) =>
                LET tm == results.categories["terminology"]
                    sum == detectConfusableTerms(content).score + scores["AV-02"].score
                IN /\ 2 * tm.criteria["AV-02"].score - sum \in -10..10
                   /\ \/ tm.score = WeightedCategoryScore(tm.order, tm.criteria, TerminologyWeights)
                      \/ IsUnweightedMeanOf(tm.score, tm.criteria)

\* the progress reports of a run, in the order of its steps: rules, the
\* semantic step if there is a key (55, and 80 when it succeeds), compute,
\* complete
StepOrders == { <<10, 25, 40, 90, 100>>, <<10, 25, 40, 55, 90, 100>>, <<10, 25, 40, 55, 80, 90, 100>> }

\* C22: the steps of a run come in the order rules, semantic or estimate,
\* section rollup, composite, issues, done: a run moves from the rules to
\* the semantic step or to its end and never back, its progress reports
\* come in the order of the steps, and the returned report's compositeScore
\* and status are those of calculateCompositeScore on the category table
\* the report holds (after merge, estimate and section rollup) and its
\* allIssues and topIssues those of collectAllIssues on the same table
C22_StepsInOrder ==
    /\ pc = "awaiting" => (progress = <<10, 25, 40, 55>> /\ DOMAIN results.categories = {"content-structure", "terminology", "text-over-visuals"})
    /\ pc = "done" =>
           /\ progress \in StepOrders
           /\ (55 \in Range(progress)) = apiKey
           /\ (80 \in Range(progress)) = (apiKey /\ thrown = "none")
           /\ DOMAIN results.categories = CategoryKeys
           /\ results.compositeScore = calculateCompositeScore(results.categories, results.catOrder)
           /\ results.status = getStatus(results.compositeScore)
           /\ results.allIssues = collectAllIssues(results.categories, results.catOrder)
           /\ results.topIssues = getTopIssues(results.allIssues, 5)

\* a report of a page with sections, whose rollup changed the score of
\* content-structure before the composite was computed
C22_Witness ==
    /\ pc = "done"
    /\ apiKey
    /\ thrown = "none"
    /\ results.sectionRollup # Null
    /\ results.categories["content-structure"].score
           # averageScores(results.categories["content-structure"].order,
                           results.categories["content-structure"].criteria)
    /\ results.compositeScore = calculateCompositeScore(results.categories, results.catOrder)

\* the Jaccard similarity of two token sets is at least 0.85 (two sets
\* without a token have none)
JaccardAtLeast85(a, b) == a \cup b # {} /\ 100 * Cardinality(a \cap b) >= 85 * Cardinality(a \cup b)

\* the pairs of URLs of the batch that were scored and whose pages are
\* that similar
SimilarScored(urls) ==
    { p \in (DOMAIN urls) \X (DOMAIN urls) :
        /\ p[1] < p[2]
        /\ urls[p[1]].kind # "failed"
        /\ urls[p[2]].kind # "failed"
        /\ JaccardAtLeast85(Tokens(urls[p[1]].text), Tokens(urls[p[2]].text)) }

\* C23: when the batch is through, every pair of scored pages whose token
\* sets have a Jaccard similarity of 0.85 or more is reported once, with the
\* URLs of the two pages, and no other pair is reported
C23_DuplicatePairsReported ==
    (pc = "batch" /\ fnIn.started /\ fnIn.i = Len(fnIn.urls)) =>
        /\ \A p \in SimilarScored(fnIn.urls) :
               Cardinality({ k \in DOMAIN fnOut : fnOut[k].a = p[1] /\ fnOut[k].b = p[2] }) = 1
        /\ \A k \in DOMAIN fnOut : <<fnOut[k].a, fnOut[k].b>> \in SimilarScored(fnIn.urls)

\* C29: whenever the results view is shown, App.state holds a report and
\* no scoring is marked as running
C29_ResultsViewHoldsReport ==
    pc \in {"app", "batch"} => (app.view = "results" => (app.results # <<>> /\ ~app.isScoring))

\* the links of the page that the extraction marked as broken
BrokenLinks(page) == { i \in DOMAIN page.links : page.links[i].isBroken }

\* C24: in every report CS-07 is 10 for a page without links and otherwise
\* round(10 * (1 - broken links / links)), a number from 0 to 10, and the
\* score of content-structure, which includes it, is a number
C24_LinkIntegrityDefined ==
    pc = "done" =>
        LET cs == results.categories["content-structure"]
            total == Len(content.links)
        IN /\ cs.criteria["CS-07"].score =
                  IF total = 0 THEN 100
                  ELSE 10 * RoundDiv(10 * (total - Cardinality(BrokenLinks(content))), total)
           /\ InRange(cs.criteria["CS-07"].score)
           /\ IsNum(cs.score)

\* the report a run without a key returns for the page
RuleOnlyReport(page) ==
    Finish(addEstimatedScores(RuleCategories(NewResults(FALSE), page, computeMetrics(page)),
                              page, computeMetrics(page)), page)

RuleKeys == {"content-structure", "terminology", "text-over-visuals"}

\* C25: when a run with a key returns with meta.claudeError set, its
\* content-structure, terminology and text-over-visuals categories (score,
\* weight, criteria, issues) are those of a run without a key on the same
\* content, whichever step of the semantic path threw
C25_FallbackKeepsRuleCategories ==
    (pc = "done" /\ apiKey /\ results.meta.claudeError # "none") =>
        \A k \in RuleKeys : results.categories[k] = RuleOnlyReport(content).categories[k]

\* a run whose response arrived and was transformed and whose cache save
\* threw, on a page with sections and rule-based issues
C25_Witness ==
    /\ pc = "done"
    /\ apiKey
    /\ remoteCalls = 1
    /\ results.meta.claudeError = QuotaMessage
    /\ results.sectionRollup # Null
    /\ results.categories["content-structure"].issues # <<>>
    /\ results.categories["outcomes-reversibility"].estimated

\* C26: starting from an empty cache, the runs for one content with a key
\* make at most one remote call that does not fail, as long as no entry
\* can have expired (the clock has not moved): every other run is a cache
\* hit
C26_OneRemoteCallPerContent ==
    (pc = "overlap" /\ fnIn.ticks = 0) => remoteCalls - fnOut.failed <= 1

\* C27: when saveClaudeCacheEntry(hash, payload) has returned, the store
\* holds an entry for hash, saved at the time of the call, and a read of
\* hash at that time is a hit
C27_SavedEntryPresent ==
    (pc = "storage" /\ fnIn.op = "save") =>
        /\ \E i \in DOMAIN cache : cache[i].key = fnIn.hash /\ cache[i].savedAt = fnIn.now
        /\ getClaudeCacheEntry(getClaudeCache(cache, corrupt).cache, fnIn.hash, fnIn.now).hit

\* C28: when the remote call of a run resolved and transformScores returned
\* (no error, or only the one saveClaudeCacheEntry threw), the report
\* returned carries the semantic categories, not estimated ones, and no
\* meta.claudeError
C28_SaveFailureKeepsResult ==
    (pc = "done" /\ apiKey /\ remoteCalls = 1 /\ thrown \in {"none", QuotaMessage}) =>
        /\ results.meta.claudeError = "none"
        /\ \A k \in SemanticKeys : ~results.categories[k].estimated

\* the issues attached to the criteria of a category that allIssues lacks
\* under the category's name and key
LostIssues(r, k) ==
    { <<c, j>> \in UNION { {c} \X DOMAIN r.categories[k].criteria[c].issues : c \in DOMAIN r.categories[k].criteria } :
        ~\E n \in DOMAIN r.allIssues :
            r.allIssues[n] = [severity |-> r.categories[k].criteria[c].issues[j].severity,
                              message |-> r.categories[k].criteria[c].issues[j].message,
                              at |-> r.categories[k].criteria[c].issues[j].at,
                              category |-> r.categories[k].name,
                              categoryKey |-> k] }

\* C30: in every report returned, every issue of every criterion of every
\* category is in allIssues, tagged with the name and key of the category
C30_IssuesConserved ==
    pc = "done" => \A k \in DOMAIN results.categories : LostIssues(results, k) = {}
====
